---- MODULE Spec2Model ----
(***************************************************************************)
(* A model of the Austin sample-changing robot IOC (spc-group/ioc-austin). *)
(*                                                                         *)
(* Request handlers are coroutines on one event loop: a handler runs       *)
(* without interruption up to an `await`, where another handler may run.   *)
(* Each action below is the stretch of a handler between two such points.  *)
(*                                                                         *)
(*   Spec         the execution permit (lock / unlock), the transfer       *)
(*                action that takes it, and the pick / place / home /      *)
(*                axis-move handlers                                       *)
(*   SpecSamples  the sample slots: load, unload, unload_current_sample,   *)
(*                current_sample_reset, home, cal_stage, the presence scan *)
(*   SpecEncoder  heartbeat_message and server_address, called on their    *)
(*                own                                                      *)
(*   SpecAlive    the heartbeat: the startup hook, the puts of a client,   *)
(*                the scan that calls send_heartbeat                       *)
(*   SpecChannel  the command channel of the robot driver (connect,        *)
(*                send_and_receive) and the dashboard handlers that use it *)
(*   SpecChannelLive   SpecChannel with the executor thread kept running   *)
(*   SpecDriver   the pick and place methods of the robot driver, called   *)
(*                on their own                                             *)
(***************************************************************************)
EXTENDS Integers, Sequences, FiniteSets, TLC

\* Number of request handlers that may be alive at the same time.
NTasks == 3

Tasks == 1..NTasks

\* Python's None.
None == "None"

\* The sample slots of the model, by their number as current_sample holds it
\* (the IOC has sample8 .. sample22).
Slots == {"8", "14"}

VARIABLES
    _lock,          \* AustinIOC._lock / RobotIOC._lock: TRUE while acquired
    busy,           \* the busy PV
    done_moving,    \* TransferGroup.done_moving (.DMOV)
    op,             \* per task: the handler it runs
    pc,             \* per task: where the handler is
    outcome,        \* per task: how the handler ended
    executed,       \* per task (history): its driver call was submitted
    moving,         \* tasks whose driver call is running in the executor
    holder,         \* (history) the task whose acquire succeeded last, 0 when released
    current_sample, \* SamplesGroup.current_sample: "None" or a slot number
    present,        \* per slot: SampleGroup.present
    empty,          \* per slot: SampleGroup.empty
    stage_position, \* per slot: SampleGroup.stage_position, None until calibrated
    arg,            \* per task: the slot its handler belongs to
    todo,           \* per task: what is left of its handler, innermost call first
    trace,          \* per task (history): the commands and writes it has issued
    requests,       \* (history) the number of sample requests made so far
    call,           \* the last call of a function of alive.py: its arguments and result
    hrtbt,          \* AliveGroup.hrtbt (.HRTBT), as the PV stores it
    val,            \* AliveGroup.val (.VAL): the heartbeat counter
    raddr,          \* AliveGroup.raddr (.RADDR)
    rport,          \* AliveGroup.rport (.RPORT)
    aaddr,          \* AliveGroup.aaddr (.AADDR)
    aport,          \* AliveGroup.aport (.APORT)
    itrig,          \* AliveGroup.itrig (.ITRIG), as the PV stores it
    isup,           \* AliveGroup.isup (.ISUP), as the PV stores it
    hb,             \* send_heartbeat: where it is, and its local variables
    sock,           \* the socket's record of sendto, as a mock keeps it: the
                    \* number of calls that returned and the last of them
    ticks,          \* (history) the number of send_heartbeat calls so far
    self_incarnation, \* AliveGroup.incarnation, None until the startup hook sets it
    startup,        \* where the startup hook of AliveGroup.val is
    ioc,            \* the IOC of the command channel: which one it is, and
                    \* whether its constructor has run, returned or raised
    is_connected,   \* RobotDriver.is_connected
    transport,      \* (history) the socket: opened, greeting read, closed by the peer
    inbound,        \* the bytes the robot has sent and the driver has not read
    pending,        \* the bytes the driver has sent and the robot has not read
    lock,           \* DashboardGroup.lock: the task that holds it, 0 when free
    dash,           \* per task: its dashboard handler, where it is, its locals
    fields,         \* the cached values of the dashboard PVs
    exchanges       \* (history) the number of dashboard handlers started so far

permitVars == <<_lock, busy, holder>>
taskVars == <<op, pc, outcome, executed, moving>>
sampleVars == <<current_sample, present, empty, stage_position, arg, todo, trace,
                requests>>

beaconVars == <<hrtbt, val, raddr, rport, aaddr, aport, itrig, isup, hb, sock,
                ticks, self_incarnation, startup>>

aliveVars == <<call, beaconVars>>

\* The variables of the robot: the permit, the handlers, the sample slots.
robotVars == <<permitVars, done_moving, taskVars, sampleVars>>

\* The variables of the command channel and of the dashboard.
channelVars == <<ioc, is_connected, transport, inbound, pending, lock, dash, fields,
                 exchanges>>

vars == <<robotVars, aliveVars, channelVars>>

\* The handlers a task may run:
\*   "transfer"  TransferGroup.run
\*   "action"    ActionsGroup.pickj, pickl, placej, placel, homej, homel: six
\*               handlers of one shape, the driver call is handed to the
\*               executor and the handler returns without awaiting it
\*   "axis"      StatusGroup.move_joint, move_position, RobotAxisFields.move_axis
\*               (the tweaks), GripperGroup.val: the driver call is handed to
\*               the executor and awaited
Handlers == {"transfer", "action", "axis"}

\* Values a client may put to TransferGroup.run.
RunValues == {0, 1}

\* A driver call either returns or raises.
DriverResults == {"ok", "raise"}

-----------------------------------------------------------------------------
(* The execution permit.                                                   *)

\* Lock.acquire(blocking=False) that takes the lock whatever its state.
TryAcquireAlways(held) == TRUE

\* Lock.acquire(blocking=False): succeeds exactly when the lock is free.
TryAcquire(held) == held = FALSE

\* lock() that never raises.
LockNeverRaises(result) == FALSE

\* lock(): `if result is False: raise RobotBusy(...)`.
LockRaises(result) == result = FALSE

\* A run() that calls lock() inside its try block: RobotBusy runs the finally.
AfterRobotBusyInTry == "finally"

\* TransferGroup.run: `await self.parent.lock()` stands before the try block, so
\* RobotBusy leaves run() at once.
AfterRobotBusy == "raised"

\* A run() with no try/finally: an exception of the driver call leaves at once.
AfterExecutorNoFinally(r) == IF r = "raise" THEN "returned" ELSE "finally"

\* TransferGroup.run: the finally block runs whether the driver call returned
\* or raised.
AfterExecutor(r) == "finally"

\* Python's False, the value a bool PV is constructed with; once written, a
\* bool PV holds one of its enum strings, "Off" or "On".
PyFalse == "False"

\* The task records that serve dashboard scans and puts.
DashTasks == {1, 2}

\* A Python value of the dashboard is a sequence of strings: <<"None">>,
\* <<"True">>, <<"False">>, or <<"str">> followed by the pieces of a text.
PyNoneValue == <<None>>

PyBool(b) == IF b THEN <<"True">> ELSE <<PyFalse>>

PyStr(text) == <<"str">> \o text

\* No dashboard handler runs in the task.
NoHandler ==
    [pc |-> "idle", f |-> None, collected |-> <<>>, sends |-> 0, eof |-> FALSE,
     error |-> "", exchange |-> "", reply |-> PyNoneValue, raised |-> "",
     value |-> PyNoneValue, ended |-> ""]

\* DashboardGroup: the values the PVs are constructed with.
InitialFields ==
    [f \in {"remote_control", "program_running", "safety_status", "play", "message"} |->
        IF f \in {"safety_status", "message"} THEN PyStr(<<>>) ELSE PyBool(FALSE)]

\* No function is being called on its own.
NoCall == [f |-> None, args |-> <<>>, result |-> <<>>]

\* send_heartbeat is not running; `how` tells how its last call ended:
\* "disabled" (it returned False at once), "skipped" (no server address),
\* "sent" (the datagram went out and .VAL was written), "raised".
Ended(how) ==
    [pc |-> "idle", how |-> how, next_heartbeat |-> 0, message |-> <<>>,
     address |-> <<>>]

Idle == Ended("")

\* The handler positions between a successful acquire() and the release().
Critical == {"lock_busy", "executing", "finally", "unlock"}

Init ==
    /\ _lock = FALSE
    /\ busy = FALSE
    /\ done_moving = 1
    /\ op = [t \in Tasks |-> None]
    /\ pc = [t \in Tasks |-> "idle"]
    /\ outcome = [t \in Tasks |-> None]
    /\ executed = [t \in Tasks |-> FALSE]
    /\ moving = {}
    /\ holder = 0
    /\ current_sample = None
    /\ present = [s \in Slots |-> TRUE]
    /\ empty = [s \in Slots |-> TRUE]
    /\ stage_position = [s \in Slots |-> None]
    /\ arg = [t \in Tasks |-> None]
    /\ todo = [t \in Tasks |-> <<>>]
    /\ trace = [t \in Tasks |-> <<>>]
    /\ requests = 0
    /\ call = NoCall
    /\ hrtbt = PyFalse
    /\ val = 0
    /\ raddr = ""
    /\ rport = 0
    /\ aaddr = ""
    /\ aport = 0
    /\ itrig = PyFalse
    /\ isup = PyFalse
    /\ hb = Idle
    /\ sock = [calls |-> 0, call_args |-> <<>>]
    /\ ticks = 0
    /\ self_incarnation = <<>>
    /\ startup = "new"
    /\ ioc = [class |-> None, state |-> "new"]
    /\ is_connected = FALSE
    /\ transport = [opened |-> FALSE, greeted |-> FALSE, closed |-> FALSE]
    /\ inbound = <<>>
    /\ pending = <<>>
    /\ lock = 0
    /\ dash = [t \in DashTasks |-> NoHandler]
    /\ fields = InitialFields
    /\ exchanges = 0

-----------------------------------------------------------------------------
(* TransferGroup.run                                                       *)

\* A put to .RUN: a null value is ignored, otherwise .DMOV is written 0.
RunPut(t, value) ==
    /\ pc[t] = "idle"
    /\ op' = [op EXCEPT ![t] = "transfer"]
    /\ IF value = 0
       THEN /\ pc' = [pc EXCEPT ![t] = "returned"]
            /\ outcome' = [outcome EXCEPT ![t] = "ignored"]
            /\ UNCHANGED done_moving
       ELSE /\ pc' = [pc EXCEPT ![t] = "lock"]
            /\ done_moving' = 0
            /\ UNCHANGED outcome
    /\ UNCHANGED <<_lock, busy, executed, moving, holder, sampleVars>>
    /\ UNCHANGED aliveVars
    /\ UNCHANGED channelVars

\* lock(), up to its await: the non-blocking acquire and the raise.
RunLock(t) ==
    /\ pc[t] = "lock"
    /\ LET result == TryAcquire(_lock)
       IN  /\ _lock' = (_lock \/ result)
           /\ holder' = IF result THEN t ELSE holder
           /\ IF LockRaises(result)
              THEN /\ pc' = [pc EXCEPT ![t] = AfterRobotBusy]
                   /\ outcome' = [outcome EXCEPT ![t] = "RobotBusy"]
              ELSE /\ pc' = [pc EXCEPT ![t] = "lock_busy"]
                   /\ UNCHANGED outcome
    /\ UNCHANGED <<busy, done_moving, op, executed, moving, sampleVars>>
    /\ UNCHANGED aliveVars
    /\ UNCHANGED channelVars

\* lock() after its await: busy is written 1; back in run() the driver call is
\* handed to the executor.
RunLockBusy(t) ==
    /\ pc[t] = "lock_busy"
    /\ busy' = TRUE
    /\ moving' = moving \cup {t}
    /\ executed' = [executed EXCEPT ![t] = TRUE]
    /\ pc' = [pc EXCEPT ![t] = "executing"]
    /\ UNCHANGED <<_lock, done_moving, op, outcome, holder, sampleVars>>
    /\ UNCHANGED aliveVars
    /\ UNCHANGED channelVars

\* The driver call ends: it returned or it raised.
RunExecutorDone(t, r) ==
    /\ pc[t] = "executing"
    /\ moving' = moving \ {t}
    /\ pc' = [pc EXCEPT ![t] = AfterExecutor(r)]
    /\ outcome' = [outcome EXCEPT ![t] = IF r = "raise" THEN "DriverError" ELSE "ok"]
    /\ UNCHANGED <<_lock, busy, done_moving, op, executed, holder, sampleVars>>
    /\ UNCHANGED aliveVars
    /\ UNCHANGED channelVars

\* finally: .DMOV is written 1.
RunFinally(t) ==
    /\ pc[t] = "finally"
    /\ done_moving' = 1
    /\ pc' = [pc EXCEPT ![t] = "unlock"]
    /\ UNCHANGED <<_lock, busy, op, outcome, executed, moving, holder, sampleVars>>
    /\ UNCHANGED aliveVars
    /\ UNCHANGED channelVars

\* unlock(), up to its await: the release.
RunUnlock(t) ==
    /\ pc[t] = "unlock"
    /\ _lock' = FALSE
    /\ holder' = 0
    /\ pc' = [pc EXCEPT ![t] = "unlock_busy"]
    /\ UNCHANGED <<busy, done_moving, op, outcome, executed, moving, sampleVars>>
    /\ UNCHANGED aliveVars
    /\ UNCHANGED channelVars

\* unlock() after its await: busy is written 0 and run() returns.
RunUnlockBusy(t) ==
    /\ pc[t] = "unlock_busy"
    /\ busy' = FALSE
    /\ pc' = [pc EXCEPT ![t] = "returned"]
    /\ UNCHANGED <<_lock, done_moving, op, outcome, executed, moving, holder, sampleVars>>
    /\ UNCHANGED aliveVars
    /\ UNCHANGED channelVars

-----------------------------------------------------------------------------
(* ActionsGroup, StatusGroup, RobotAxisFields, GripperGroup                *)

\* pickj .. homel: loop.run_in_executor(...) is not awaited.
ActionCall(t) ==
    /\ pc[t] = "idle"
    /\ op' = [op EXCEPT ![t] = "action"]
    /\ moving' = moving \cup {t}
    /\ executed' = [executed EXCEPT ![t] = TRUE]
    /\ pc' = [pc EXCEPT ![t] = "returned"]
    /\ outcome' = [outcome EXCEPT ![t] = "ok"]
    /\ UNCHANGED <<_lock, busy, done_moving, holder, sampleVars>>
    /\ UNCHANGED aliveVars
    /\ UNCHANGED channelVars

\* The driver call of a returned pick / place / home handler ends.
ActionMotionDone(t) ==
    /\ pc[t] = "returned"
    /\ op[t] = "action"
    /\ t \in moving
    /\ moving' = moving \ {t}
    /\ UNCHANGED <<_lock, busy, done_moving, op, pc, outcome, executed, holder, sampleVars>>
    /\ UNCHANGED aliveVars
    /\ UNCHANGED channelVars

\* move_joint, move_position, move_axis, GripperGroup.val: the driver call is
\* handed to the executor and awaited.
AxisPut(t) ==
    /\ pc[t] = "idle"
    /\ op' = [op EXCEPT ![t] = "axis"]
    /\ moving' = moving \cup {t}
    /\ executed' = [executed EXCEPT ![t] = TRUE]
    /\ pc' = [pc EXCEPT ![t] = "axis_moving"]
    /\ UNCHANGED <<_lock, busy, done_moving, outcome, holder, sampleVars>>
    /\ UNCHANGED aliveVars
    /\ UNCHANGED channelVars

AxisDone(t, r) ==
    /\ pc[t] = "axis_moving"
    /\ moving' = moving \ {t}
    /\ pc' = [pc EXCEPT ![t] = "returned"]
    /\ outcome' = [outcome EXCEPT ![t] = IF r = "raise" THEN "DriverError" ELSE "ok"]
    /\ UNCHANGED <<_lock, busy, done_moving, op, executed, holder, sampleVars>>
    /\ UNCHANGED aliveVars
    /\ UNCHANGED channelVars

\* The caller has its reply (or its error); the task record is free again.
Retire(t) ==
    /\ pc[t] \in {"returned", "raised"}
    /\ t \notin moving
    /\ pc' = [pc EXCEPT ![t] = "idle"]
    /\ op' = [op EXCEPT ![t] = None]
    /\ outcome' = [outcome EXCEPT ![t] = None]
    /\ executed' = [executed EXCEPT ![t] = FALSE]
    /\ arg' = [arg EXCEPT ![t] = None]
    /\ todo' = [todo EXCEPT ![t] = <<>>]
    /\ trace' = [trace EXCEPT ![t] = <<>>]
    /\ UNCHANGED <<permitVars, done_moving, moving, current_sample, present, empty,
                   stage_position, requests>>
    /\ UNCHANGED aliveVars
    /\ UNCHANGED channelVars

Next ==
    \/ \E t \in Tasks, value \in RunValues : RunPut(t, value)
    \/ \E t \in Tasks : RunLock(t)
    \/ \E t \in Tasks : RunLockBusy(t)
    \/ \E t \in Tasks, r \in DriverResults : RunExecutorDone(t, r)
    \/ \E t \in Tasks : RunFinally(t)
    \/ \E t \in Tasks : RunUnlock(t)
    \/ \E t \in Tasks : RunUnlockBusy(t)
    \/ \E t \in Tasks : ActionCall(t)
    \/ \E t \in Tasks : ActionMotionDone(t)
    \/ \E t \in Tasks : AxisPut(t)
    \/ \E t \in Tasks, r \in DriverResults : AxisDone(t, r)
    \/ \E t \in Tasks : Retire(t)

Spec == Init /\ [][Next]_vars

-----------------------------------------------------------------------------
(* SampleGroup and SamplesGroup.                                           *)
(*                                                                         *)
(* A handler that awaits another PV's write runs that PV's putter inside   *)
(* itself; todo[t] is what is left of the outermost handler with the inner *)
(* calls unfolded in place, as a sequence of commands <<k, f, a, b>>.      *)

\* Number of sample requests made in one behaviour.
MaxRequests == 3

\* The task records that serve sample requests: two requests may be alive at
\* the same time.
SampleTasks == {1, 2}

\* Values a client may put to a trigger PV.
PutValues == {"On", "Off"}

\* The labjack readings of a presence switch.
LabjackValues == {"Low", "High"}

\* board_to_stage_path, by index.
waypoints == <<"0", "1">>

Reverse(seq) == [i \in 1..Len(seq) |-> seq[Len(seq) + 1 - i]]

\* await self.actions.run_action(self.driver.<f>, <position>)
RunAction(f, a, b) == <<"run_action", f, a, b>>

\* for waypoint in <ws>: await self.actions.run_action(self.driver.movel, waypoint)
Moves(ws) == [i \in 1..Len(ws) |-> RunAction("movel", "waypoint", ws[i])]

\* await <pv>.write(<value>) of a PV whose write only stores the value
Write(pv, value, s) == <<"write", pv, value, s>>

\* await self.parent.unload_current_sample.write("On")
UnloadCurrent == <<"putter", "unload_current_sample", "On", None>>

\* await self.home.write("On")
Home == <<"putter", "home", "On", None>>

\* cal_stage: load and play cal_stage.urp, wait for it, read the position
Calibrate == <<"calibrate", "cal_stage.urp", None, None>>

\* cal_stage: sample_grp.stage_position = found_stage, for every sample group
SetStage == <<"set", "stage_position", "found_stage", None>>

\* home: await self.parent.status.n.write(2.276), whose putter is move_joint
MoveJoint == <<"move_joint", "movej", "n", "2.276">>

\* A load that walks the waypoints in the same direction both times.
LoadBodySameWay(s) ==
    <<UnloadCurrent, RunAction("pickl", "sample_position", s)>>
    \o Moves(waypoints)
    \o <<RunAction("placel", "stage_position", s), Write("current_sample", s, None)>>
    \o Moves(waypoints)

\* A load that records the occupant before the place on the stage.
LoadBodyWriteFirst(s) ==
    <<UnloadCurrent, RunAction("pickl", "sample_position", s)>>
    \o Moves(waypoints)
    \o <<Write("current_sample", s, None), RunAction("placel", "stage_position", s)>>
    \o Moves(Reverse(waypoints))

\* SampleGroup.load after its checks.
LoadBody(s) ==
    <<UnloadCurrent, RunAction("pickl", "sample_position", s)>>
    \o Moves(waypoints)
    \o <<RunAction("placel", "stage_position", s), Write("current_sample", s, None)>>
    \o Moves(Reverse(waypoints))

\* An unload with no move to the first waypoint after the occupant is cleared.
UnloadBodyNoRest(s) ==
    Moves(waypoints)
    \o <<RunAction("pickl", "stage_position", s)>>
    \o Moves(Reverse(waypoints))
    \o <<RunAction("placel", "sample_position", s), Write("current_sample", None, None),
         Write("present", "1", s)>>

\* An unload that clears the occupant before the place on the slot.
UnloadBodyClearFirst(s) ==
    Moves(waypoints)
    \o <<RunAction("pickl", "stage_position", s)>>
    \o Moves(Reverse(waypoints))
    \o <<Write("current_sample", None, None), RunAction("placel", "sample_position", s),
         RunAction("movel", "waypoint", waypoints[1]), Write("present", "1", s)>>

\* SampleGroup.unload after its check.
UnloadBody(s) ==
    Moves(waypoints)
    \o <<RunAction("pickl", "stage_position", s)>>
    \o Moves(Reverse(waypoints))
    \o <<RunAction("placel", "sample_position", s), Write("current_sample", None, None),
         RunAction("movel", "waypoint", waypoints[1]), Write("present", "1", s)>>

\* SamplesGroup.home: from near the stage through both waypoints in reverse,
\* otherwise to the first; then the joint move.
HomeBody(near_stage) ==
    (IF near_stage
     THEN [i \in 1..Len(waypoints) |->
              RunAction("movel", "home_waypoint", Reverse(waypoints)[i])]
     ELSE <<RunAction("movel", "home_waypoint", waypoints[1])>>)
    \o <<MoveJoint>>

\* SamplesGroup.cal_stage: one turn of the loop, the assignment, the last home.
CalStageBody == <<Home, Calibrate, SetStage, Home>>

\* is_empty that never reports an empty platform.
is_emptyNever(s) == FALSE

\* is_empty that always reports an empty platform.
is_emptyAlways(s) == TRUE

\* SampleGroup.is_empty
is_empty(s) == present[s] = FALSE

\* SampleGroup.__init__: every sample group is constructed with the position of
\* its slot on the board.
sample_position == [s \in Slots |-> s]

\* check_calibration that accepts unset positions.
check_calibrationSkipped(s) == "ok"

\* SampleGroup.check_calibration
check_calibration(s) ==
    IF stage_position[s] = None THEN "NotCalibrated"
    ELSE IF sample_position[s] = None THEN "NotCalibrated"
    ELSE "ok"

\* A request is served by task t. Task records are interchangeable, so a
\* request takes the first free one.
Request(t) ==
    /\ requests < MaxRequests
    /\ \A u \in SampleTasks : u < t => pc[u] # "idle"
    /\ requests' = requests + 1

\* The handler of task t raised: nothing of it is left to run.
Raise(t, error) ==
    /\ pc' = [pc EXCEPT ![t] = "raised"]
    /\ outcome' = [outcome EXCEPT ![t] = error]
    /\ todo' = [todo EXCEPT ![t] = <<>>]

\* The handler of task t goes on with `rest`, and returns when nothing is left.
Continue(t, rest) ==
    /\ todo' = [todo EXCEPT ![t] = rest]
    /\ pc' = [pc EXCEPT ![t] = IF rest = <<>> THEN "returned" ELSE "ready"]
    /\ outcome' = [outcome EXCEPT ![t] = IF rest = <<>> THEN "ok" ELSE outcome[t]]

\* The history of a load or an unload is kept; the loop of cal_stage has none.
Traced(t) == op[t] \in {"load", "unload", "unload_current_sample"}

Record(t) ==
    trace' = [trace EXCEPT ![t] = IF Traced(t) THEN Append(@, Head(todo[t])) ELSE @]

\* The command task t is at, and what follows it.
Cmd(t) == Head(todo[t])

After(t) == Tail(todo[t])

Ready(t, k) == pc[t] = "ready" /\ todo[t] # <<>> /\ Cmd(t)[1] = k

\* A put to sample<s>:load, up to the first await.
LoadPut(t, s, value) ==
    /\ pc[t] = "idle"
    /\ op' = [op EXCEPT ![t] = "load"]
    /\ arg' = [arg EXCEPT ![t] = s]
    /\ Request(t)
    /\ IF value # "On"
       THEN /\ pc' = [pc EXCEPT ![t] = "returned"]
            /\ outcome' = [outcome EXCEPT ![t] = "ignored"]
            /\ UNCHANGED todo
       ELSE IF check_calibration(s) # "ok"
       THEN Raise(t, check_calibration(s))
       ELSE IF is_empty(s)
       THEN Raise(t, "SlotEmpty")
       ELSE Continue(t, LoadBody(s))
    /\ UNCHANGED <<permitVars, done_moving, executed, moving, current_sample, present,
                   empty, stage_position, trace>>
    /\ UNCHANGED aliveVars
    /\ UNCHANGED channelVars

\* A put to sample<s>:unload, up to the first await.
UnloadPut(t, s, value) ==
    /\ pc[t] = "idle"
    /\ op' = [op EXCEPT ![t] = "unload"]
    /\ arg' = [arg EXCEPT ![t] = s]
    /\ Request(t)
    /\ IF value # "On"
       THEN /\ pc' = [pc EXCEPT ![t] = "returned"]
            /\ outcome' = [outcome EXCEPT ![t] = "ignored"]
            /\ UNCHANGED todo
       ELSE IF ~is_empty(s)
       THEN Raise(t, "SlotNotEmpty")
       ELSE Continue(t, UnloadBody(s))
    /\ UNCHANGED <<permitVars, done_moving, executed, moving, current_sample, present,
                   empty, stage_position, trace>>
    /\ UNCHANGED aliveVars
    /\ UNCHANGED channelVars

\* A put to unload_current_sample, up to the read of current_sample.
UnloadCurrentPut(t, value) ==
    /\ pc[t] = "idle"
    /\ op' = [op EXCEPT ![t] = "unload_current_sample"]
    /\ Request(t)
    /\ IF value # "On"
       THEN /\ pc' = [pc EXCEPT ![t] = "returned"]
            /\ outcome' = [outcome EXCEPT ![t] = "ignored"]
            /\ UNCHANGED todo
       ELSE Continue(t, <<UnloadCurrent>>)
    /\ UNCHANGED <<permitVars, done_moving, executed, moving, current_sample, present,
                   empty, stage_position, arg, trace>>
    /\ UNCHANGED aliveVars
    /\ UNCHANGED channelVars

\* The unload_current_sample putter, called by a client or inside load: with no
\* current sample it does nothing, otherwise it runs that sample's unload.
UnloadCurrentSample(t) ==
    /\ Ready(t, "putter")
    /\ Cmd(t) = UnloadCurrent
    /\ IF current_sample = None
       THEN Continue(t, After(t))
       ELSE IF ~is_empty(current_sample)
       THEN Raise(t, "SlotNotEmpty")
       ELSE Continue(t, UnloadBody(current_sample) \o After(t))
    /\ UNCHANGED <<permitVars, done_moving, op, executed, moving, current_sample,
                   present, empty, stage_position, arg, trace, requests>>
    /\ UNCHANGED aliveVars
    /\ UNCHANGED channelVars

\* A put to current_sample_reset.
CurrentSampleReset(t, value) ==
    /\ pc[t] = "idle"
    /\ op' = [op EXCEPT ![t] = "current_sample_reset"]
    /\ Request(t)
    /\ pc' = [pc EXCEPT ![t] = "returned"]
    /\ IF value # "On"
       THEN /\ outcome' = [outcome EXCEPT ![t] = "ignored"]
            /\ UNCHANGED current_sample
       ELSE /\ outcome' = [outcome EXCEPT ![t] = "ok"]
            /\ current_sample' = None
    /\ UNCHANGED <<permitVars, done_moving, executed, moving, present, empty,
                   stage_position, arg, todo, trace>>
    /\ UNCHANGED aliveVars
    /\ UNCHANGED channelVars

\* A put to home (any value starts it), up to the first await; near_stage is
\* the comparison of the y read-back with the last waypoint.
HomePut(t, near_stage) ==
    /\ pc[t] = "idle"
    /\ op' = [op EXCEPT ![t] = "home"]
    /\ Request(t)
    /\ Continue(t, HomeBody(near_stage))
    /\ UNCHANGED <<permitVars, done_moving, executed, moving, current_sample, present,
                   empty, stage_position, arg, trace>>
    /\ UNCHANGED aliveVars
    /\ UNCHANGED channelVars

\* The home putter called inside cal_stage.
HomeInside(t, near_stage) ==
    /\ Ready(t, "putter")
    /\ Cmd(t) = Home
    /\ Continue(t, HomeBody(near_stage) \o After(t))
    /\ UNCHANGED <<permitVars, done_moving, op, executed, moving, current_sample,
                   present, empty, stage_position, arg, trace, requests>>
    /\ UNCHANGED aliveVars
    /\ UNCHANGED channelVars

\* A put to cal_stage (any value starts it).
CalStagePut(t) ==
    /\ pc[t] = "idle"
    /\ op' = [op EXCEPT ![t] = "cal_stage"]
    /\ Request(t)
    /\ Continue(t, CalStageBody)
    /\ UNCHANGED <<permitVars, done_moving, executed, moving, current_sample, present,
                   empty, stage_position, arg, trace>>
    /\ UNCHANGED aliveVars
    /\ UNCHANGED channelVars

\* cal_stage: the calibration program has run and the position is read; when
\* the stage was not found the loop takes another turn.
CalStageProgram(t, found) ==
    /\ Ready(t, "calibrate")
    /\ Continue(t, IF found THEN After(t) ELSE <<Home, Calibrate>> \o After(t))
    /\ UNCHANGED <<permitVars, done_moving, op, executed, moving, current_sample,
                   present, empty, stage_position, arg, trace, requests>>
    /\ UNCHANGED aliveVars
    /\ UNCHANGED channelVars

\* cal_stage: every sample group gets the stage position found.
CalStageSet(t) ==
    /\ Ready(t, "set")
    /\ stage_position' = [s \in Slots |-> "found_stage"]
    /\ Continue(t, After(t))
    /\ UNCHANGED <<permitVars, done_moving, op, executed, moving, current_sample,
                   present, empty, arg, trace, requests>>
    /\ UNCHANGED aliveVars
    /\ UNCHANGED channelVars

\* ActionsGroup.run_action, first half: the permit is taken or RobotBusy is
\* raised; with the permit the driver call is handed to the executor.
RunActionStart(t) ==
    /\ Ready(t, "run_action")
    /\ IF TryAcquire(_lock)
       THEN /\ _lock' = TRUE
            /\ holder' = t
            /\ busy' = TRUE
            /\ moving' = moving \cup {t}
            /\ executed' = [executed EXCEPT ![t] = TRUE]
            /\ Record(t)
            /\ pc' = [pc EXCEPT ![t] = "moving"]
            /\ UNCHANGED <<outcome, todo>>
       ELSE /\ Raise(t, "RobotBusy")
            /\ UNCHANGED <<permitVars, executed, moving, trace>>
    /\ UNCHANGED <<done_moving, op, current_sample, present, empty, stage_position,
                   arg, requests>>
    /\ UNCHANGED aliveVars
    /\ UNCHANGED channelVars

\* ActionsGroup.run_action, second half: the driver call ended and the permit
\* is given back, also when the call raised.
RunActionDone(t, r) ==
    /\ pc[t] = "moving"
    /\ Cmd(t)[1] = "run_action"
    /\ moving' = moving \ {t}
    /\ _lock' = FALSE
    /\ holder' = 0
    /\ busy' = FALSE
    /\ IF r = "raise" THEN Raise(t, "DriverError") ELSE Continue(t, After(t))
    /\ UNCHANGED <<done_moving, op, executed, current_sample, present, empty,
                   stage_position, arg, trace, requests>>
    /\ UNCHANGED aliveVars
    /\ UNCHANGED channelVars

\* home: the write to status.n runs move_joint, which hands movej to the
\* executor and awaits it.
MoveJointStart(t) ==
    /\ Ready(t, "move_joint")
    /\ moving' = moving \cup {t}
    /\ executed' = [executed EXCEPT ![t] = TRUE]
    /\ Record(t)
    /\ pc' = [pc EXCEPT ![t] = "moving"]
    /\ UNCHANGED <<permitVars, done_moving, op, outcome, current_sample, present,
                   empty, stage_position, arg, todo, requests>>
    /\ UNCHANGED aliveVars
    /\ UNCHANGED channelVars

MoveJointDone(t, r) ==
    /\ pc[t] = "moving"
    /\ Cmd(t)[1] = "move_joint"
    /\ moving' = moving \ {t}
    /\ IF r = "raise" THEN Raise(t, "DriverError") ELSE Continue(t, After(t))
    /\ UNCHANGED <<permitVars, done_moving, op, executed, current_sample, present,
                   empty, stage_position, arg, trace, requests>>
    /\ UNCHANGED aliveVars
    /\ UNCHANGED channelVars

\* current_sample.write(...) and present.write(1) inside load and unload.
WritePV(t) ==
    /\ Ready(t, "write")
    /\ IF Cmd(t)[2] = "current_sample"
       THEN current_sample' = Cmd(t)[3] /\ UNCHANGED present
       ELSE present' = [present EXCEPT ![Cmd(t)[4]] = TRUE] /\ UNCHANGED current_sample
    /\ Record(t)
    /\ Continue(t, After(t))
    /\ UNCHANGED <<permitVars, done_moving, op, executed, moving, empty,
                   stage_position, arg, requests>>
    /\ UNCHANGED aliveVars
    /\ UNCHANGED channelVars

\* SampleGroup.present scan: the labjack input is read and, when it differs
\* from the PV, present and empty are written.
PresentScan(s, lj_val) ==
    LET present_val == lj_val # "Low"
    IN  /\ present_val # present[s]
        /\ present' = [present EXCEPT ![s] = present_val]
        /\ empty' = [empty EXCEPT ![s] = ~present_val]
        /\ UNCHANGED <<permitVars, done_moving, taskVars, current_sample,
                       stage_position, arg, todo, trace, requests>>
        /\ UNCHANGED aliveVars
        /\ UNCHANGED channelVars

NextSamples ==
    \/ \E t \in SampleTasks, s \in Slots, value \in PutValues : LoadPut(t, s, value)
    \/ \E t \in SampleTasks, s \in Slots, value \in PutValues : UnloadPut(t, s, value)
    \/ \E t \in SampleTasks, value \in PutValues : UnloadCurrentPut(t, value)
    \/ \E t \in SampleTasks : UnloadCurrentSample(t)
    \/ \E t \in SampleTasks, value \in PutValues : CurrentSampleReset(t, value)
    \/ \E t \in SampleTasks, near_stage \in BOOLEAN : HomePut(t, near_stage)
    \/ \E t \in SampleTasks, near_stage \in BOOLEAN : HomeInside(t, near_stage)
    \/ \E t \in SampleTasks : CalStagePut(t)
    \/ \E t \in SampleTasks, found \in BOOLEAN : CalStageProgram(t, found)
    \/ \E t \in SampleTasks : CalStageSet(t)
    \/ \E t \in SampleTasks : RunActionStart(t)
    \/ \E t \in SampleTasks, r \in DriverResults : RunActionDone(t, r)
    \/ \E t \in SampleTasks : MoveJointStart(t)
    \/ \E t \in SampleTasks, r \in DriverResults : MoveJointDone(t, r)
    \/ \E t \in SampleTasks : WritePV(t)
    \/ \E s \in Slots, lj_val \in LabjackValues : PresentScan(s, lj_val)
    \/ \E t \in SampleTasks : Retire(t)

SpecSamples == Init /\ [][NextSamples]_vars

-----------------------------------------------------------------------------
(* AliveGroup: the heartbeat beacon.                                       *)
(*                                                                         *)
(* A Python value that may be None is a sequence: <<>> is None, <<x>> is   *)
(* x.  An unsigned 32-bit field is wider than the integers of the checker, *)
(* so a number that goes into one is a pair <<hi, lo>> of value            *)
(* hi * 65536 + lo with lo in 0..65535.                                    *)

PyNone == <<>>

Some(x) == <<x>>

\* The integer n as a pair <<hi, lo>>.
Word(n) == <<n \div 65536, n % 65536>>

\* The sum of two pairs.
Plus(a, b) == <<a[1] + b[1] + ((a[2] + b[2]) \div 65536), (a[2] + b[2]) % 65536>>

\* A float or an int of Python: whole seconds s as a pair, and where its
\* fraction lies: "0" (none), "lt" (below one half), "half", "gt" (above).
Time(n, frac) == [s |-> Word(n), frac |-> frac]

\* heartbeat_message: the local constants.
EPICS_TIME_CORRECTION == -631152000

PROTOCOL_VERSION == 5

\* The period of the scan, and the value of .HPRD.
HEARTBEAT_PERIOD == 15

\* The value of .HMAG.
hmag == 305419896

\* The value of .IPORT.
iport == 0

\* The value of .MSG.
msg == 0

\* AliveGroup.__init__: the default of remote_port.
default_remote_port == 5678

\* epics_time: the argument plus 631152000; the fraction stays.
epics_time(unix_time) ==
    [s |-> Plus(unix_time.s, Word(631152000)), frac |-> unix_time.frac]

\* Python's round() of one argument: to the nearest integer, a half to the even
\* neighbour.
round(x) ==
    IF \/ x.frac = "gt"
       \/ x.frac = "half" /\ x.s[2] % 2 = 1
    THEN Plus(x.s, Word(1))
    ELSE x.s

\* struct.pack(">H", n) that writes the low byte first.
PackHLowFirst(n) == <<n % 256, n \div 256>>

\* struct.pack(">H", n): two bytes, the high one first.
PackH(n) == <<n \div 256, n % 256>>

\* struct.pack(">H", n) raises struct.error outside 0..65535.
FitsH(n) == n >= 0 /\ n < 65536

\* struct.pack(">L", w) that writes the low half of the number first.
PackLLowHalfFirst(w) == PackH(w[2]) \o PackH(w[1])

\* struct.pack(">L", w): four bytes, the highest first.
PackL(w) == PackH(w[1]) \o PackH(w[2])

\* struct.pack(">L", w) raises struct.error outside 0..2^32-1.
FitsL(w) == FitsH(w[1])

\* str.encode('ascii'): a name is the sequence of its code points, and the
\* encoding raises UnicodeEncodeError when one of them is above 127.
IsAscii(name) == \A i \in 1..Len(name) : name[i] < 128

\* What a call gave: the bytes it returned, or the exception it raised.
Returned(bytes) == [error |-> "", bytes |-> bytes]

Raised(error) == [error |-> error, bytes |-> <<>>]

heartbeat_message(magic_number, incarnation, current_time, heartbeat_value, period, flags, return_port, user_message, ioc_name) ==
    LET inc == Plus(round(incarnation), Word(EPICS_TIME_CORRECTION))
        cur == Plus(round(current_time), Word(EPICS_TIME_CORRECTION))
    IN  IF ~ /\ FitsL(magic_number)
             /\ FitsH(PROTOCOL_VERSION)
             /\ FitsL(inc)
             /\ FitsL(cur)
             /\ FitsL(heartbeat_value)
             /\ FitsH(period)
             /\ FitsH(flags)
             /\ FitsH(return_port)
             /\ FitsL(user_message)
        THEN Raised("struct.error")
        ELSE IF ~IsAscii(ioc_name)
        THEN Raised("UnicodeEncodeError")
        ELSE Returned(PackL(magic_number) \o PackH(PROTOCOL_VERSION) \o PackL(inc)
                        \o PackL(cur) \o PackL(heartbeat_value) \o PackH(period)
                        \o PackH(flags) \o PackH(return_port)
                        \o PackL(user_message) \o ioc_name \o <<0>>)

\* server_address: the addresses that stand for no address.
invalid_addrs == {"", "invalid AHOST", "invalid RHOST"}

\* A server_address that looks at the auxiliary host first.
server_addressPrimaryLast(ra, rp, aa, ap) ==
    LET aux == aa \notin invalid_addrs /\ ap > 0
        addr1 == IF aux THEN Some(aa) ELSE PyNone
        port1 == IF aux THEN Some(ap) ELSE PyNone
        remote == ra \notin invalid_addrs /\ rp > 0
    IN  <<IF remote THEN Some(ra) ELSE addr1, IF remote THEN Some(rp) ELSE port1>>

\* AliveGroup.server_address, of the values of .RADDR, .RPORT, .AADDR, .APORT:
\* the remote host is looked at first, the auxiliary host after it.
server_address(ra, rp, aa, ap) ==
    LET remote == ra \notin invalid_addrs /\ rp > 0
        addr1 == IF remote THEN Some(ra) ELSE PyNone
        port1 == IF remote THEN Some(rp) ELSE PyNone
        aux == aa \notin invalid_addrs /\ ap > 0
    IN  <<IF aux THEN Some(aa) ELSE addr1, IF aux THEN Some(ap) ELSE port1>>

-----------------------------------------------------------------------------
(* The two functions called on their own, on every input of small sets.    *)

\* 2^32 - 1, 2^32 and the magic number of the record.
MagicNumbers == {Word(hmag), <<65535, 65535>>, <<65536, 0>>}

\* The Unix time of the tests, with and without the EPICS shift, and the
\* cases of rounding; a time before 1990 gives a negative field.
Times ==
    {Time(0, "0"), Time(1686882446, "lt"), Time(1686882445, "half"),
     epics_time(Time(1686882446, "half")), epics_time(Time(1686882446, "gt"))}

HeartbeatValues == {Word(1), Word(16909060), Word(-1)}

Periods == {HEARTBEAT_PERIOD, 65536}

Flags == {0, 3}

ReturnPorts == {iport, 5000}

\* "", "25", and a name with a letter outside ASCII.
Names == {<<>>, <<50, 53>>, <<50, 233>>}

Addresses == {"", "invalid AHOST", "invalid RHOST", "127.0.0.1", "127.0.0.2"}

Ports == {-1, 0, 88, 89}

HeartbeatMessageCall ==
    /\ call = NoCall
    /\ \E magic_number \in MagicNumbers, incarnation \in Times,
          current_time \in Times, heartbeat_value \in HeartbeatValues,
          period \in Periods, flags \in Flags, return_port \in ReturnPorts,
          ioc_name \in Names :
           call' = [f |-> "heartbeat_message",
                    args |-> <<magic_number, incarnation, current_time,
                               heartbeat_value, period, flags, return_port,
                               Word(msg), ioc_name>>,
                    result |-> heartbeat_message(magic_number, incarnation,
                                   current_time, heartbeat_value, period, flags,
                                   return_port, Word(msg), ioc_name)]
    /\ UNCHANGED beaconVars
    /\ UNCHANGED robotVars
    /\ UNCHANGED channelVars

ServerAddressCall ==
    /\ call = NoCall
    /\ \E ra \in Addresses, rp \in Ports, aa \in Addresses, ap \in Ports :
           call' = [f |-> "server_address",
                    args |-> <<ra, rp, aa, ap>>,
                    result |-> server_address(ra, rp, aa, ap)]
    /\ UNCHANGED beaconVars
    /\ UNCHANGED robotVars
    /\ UNCHANGED channelVars

\* The caller has the result; the next call may be made.
CallReturns ==
    /\ call # NoCall
    /\ call' = NoCall
    /\ UNCHANGED beaconVars
    /\ UNCHANGED robotVars
    /\ UNCHANGED channelVars

NextEncoder ==
    \/ HeartbeatMessageCall
    \/ ServerAddressCall
    \/ CallReturns

SpecEncoder == Init /\ [][NextEncoder]_vars

-----------------------------------------------------------------------------
(* AliveGroup: the startup hook, the puts of a client, and the scan that   *)
(* calls send_heartbeat every HEARTBEAT_PERIOD seconds.                    *)

\* Number of scans in one behaviour.
MaxTicks == 3

\* What time.time() may return.
Clock == {Time(1686882446, "lt"), Time(1686882445, "half")}

\* What socket.gethostbyname may give for the default remote host.
RemoteResolutions == {"127.0.0.1", "gaierror"}

\* What socket.gethostbyname may give for a name put to .AHOST.
AuxResolutions == {"127.0.0.2"}

\* The ports a client may put to .APORT.
AuxPorts == {0, 89}

\* What a bool PV stores after a put: the enum string of the value.
EnumStrings == {"Off", "On"}

\* `self.hrtbt.value is False`: the identity with Python's False, which no
\* string has.
IsDisabled(v) == v = PyFalse

\* bool() of the value of a bool PV: False for Python's False, True for a
\* string that is not empty.
bool(v) == v # PyFalse /\ v # ""

\* A counter that goes up by two.
NextHeartbeatSkipsOne(v) == v + 2

\* send_heartbeat: next_heartbeat = self.val.value + 1
NextHeartbeat(v) == v + 1

\* A send_heartbeat that writes .VAL whether or not the send raised.
AfterSendtoRaisedWrites == "write"

\* send_heartbeat: an exception of sock_sendto leaves the coroutine; the write
\* of .VAL after it is not reached.
AfterSendtoRaised == "idle"

\* send_heartbeat: the flags of the message.
HeartbeatFlags == (IF bool(itrig) THEN 1 ELSE 0) + (IF bool(isup) THEN 2 ELSE 0)

\* The startup hook of .VAL up to its first await: the incarnation is taken
\* from the clock.
Startup ==
    /\ startup = "new"
    /\ \E now \in Clock : self_incarnation' = Some(epics_time(now))
    /\ startup' = "rhost"
    /\ UNCHANGED <<hrtbt, val, raddr, rport, aaddr, aport, itrig, isup, hb, sock,
                   ticks>>
    /\ UNCHANGED <<call, robotVars>>
    /\ UNCHANGED channelVars

\* The rhost putter called by the startup hook: the host name is resolved and
\* written to .RADDR, or the resolution raises and the hook ends there.
StartupHost ==
    /\ startup = "rhost"
    /\ \E addr \in RemoteResolutions :
           IF addr = "gaierror"
           THEN /\ startup' = "raised"
                /\ UNCHANGED raddr
           ELSE /\ startup' = "rport"
                /\ raddr' = addr
    /\ UNCHANGED <<hrtbt, val, rport, aaddr, aport, itrig, isup, hb, sock, ticks,
                   self_incarnation>>
    /\ UNCHANGED <<call, robotVars>>
    /\ UNCHANGED channelVars

\* The startup hook writes the default port to .RPORT.
StartupPort ==
    /\ startup = "rport"
    /\ rport' = default_remote_port
    /\ startup' = "done"
    /\ UNCHANGED <<hrtbt, val, raddr, aaddr, aport, itrig, isup, hb, sock, ticks,
                   self_incarnation>>
    /\ UNCHANGED <<call, robotVars>>
    /\ UNCHANGED channelVars

\* A client puts to .HRTBT.
HrtbtPut ==
    /\ \E v \in EnumStrings : hrtbt' = v
    /\ UNCHANGED <<val, raddr, rport, aaddr, aport, itrig, isup, hb, sock, ticks,
                   self_incarnation, startup>>
    /\ UNCHANGED <<call, robotVars>>
    /\ UNCHANGED channelVars

\* A client puts to .ITRIG.
ItrigPut ==
    /\ \E v \in EnumStrings : itrig' = v
    /\ UNCHANGED <<hrtbt, val, raddr, rport, aaddr, aport, isup, hb, sock, ticks,
                   self_incarnation, startup>>
    /\ UNCHANGED <<call, robotVars>>
    /\ UNCHANGED channelVars

\* A client puts to .ISUP.
IsupPut ==
    /\ \E v \in EnumStrings : isup' = v
    /\ UNCHANGED <<hrtbt, val, raddr, rport, aaddr, aport, itrig, hb, sock, ticks,
                   self_incarnation, startup>>
    /\ UNCHANGED <<call, robotVars>>
    /\ UNCHANGED channelVars

\* A client puts a host name to .AHOST: the putter resolves it and writes the
\* address to .AADDR.
AhostPut ==
    /\ \E addr \in AuxResolutions : aaddr' = addr
    /\ UNCHANGED <<hrtbt, val, raddr, rport, aport, itrig, isup, hb, sock, ticks,
                   self_incarnation, startup>>
    /\ UNCHANGED <<call, robotVars>>
    /\ UNCHANGED channelVars

\* A client puts to .APORT.
AportPut ==
    /\ \E port \in AuxPorts : aport' = port
    /\ UNCHANGED <<hrtbt, val, raddr, rport, aaddr, itrig, isup, hb, sock, ticks,
                   self_incarnation, startup>>
    /\ UNCHANGED <<call, robotVars>>
    /\ UNCHANGED channelVars

\* The scan calls send_heartbeat, which runs up to `await loop.sock_sendto`.
SendHeartbeat ==
    /\ hb.pc = "idle"
    /\ self_incarnation # PyNone
    /\ ticks < MaxTicks
    /\ ticks' = ticks + 1
    /\ \E now \in Clock :
           LET next_heartbeat == NextHeartbeat(val)
               message == heartbeat_message(Word(hmag), self_incarnation[1],
                              epics_time(now), Word(next_heartbeat),
                              HEARTBEAT_PERIOD, HeartbeatFlags, iport, Word(msg),
                              <<>>)
               address == server_address(raddr, rport, aaddr, aport)
           IN  IF IsDisabled(hrtbt)
               THEN hb' = Ended("disabled")
               ELSE IF message.error # ""
               THEN hb' = Ended("raised")
               ELSE IF address[1] # PyNone /\ address[2] # PyNone
               THEN hb' = [pc |-> "sendto", how |-> "",
                           next_heartbeat |-> next_heartbeat,
                           message |-> message.bytes,
                           address |-> <<address[1][1], address[2][1]>>]
               ELSE hb' = Ended("skipped")
    /\ UNCHANGED <<hrtbt, val, raddr, rport, aaddr, aport, itrig, isup, sock,
                   self_incarnation, startup>>
    /\ UNCHANGED <<call, robotVars>>
    /\ UNCHANGED channelVars

\* loop.sock_sendto returned: the datagram is out.
SendtoReturned ==
    /\ hb.pc = "sendto"
    /\ sock' = [calls |-> sock.calls + 1, call_args |-> <<hb.message, hb.address>>]
    /\ hb' = [hb EXCEPT !.pc = "write"]
    /\ UNCHANGED <<hrtbt, val, raddr, rport, aaddr, aport, itrig, isup, ticks,
                   self_incarnation, startup>>
    /\ UNCHANGED <<call, robotVars>>
    /\ UNCHANGED channelVars

\* loop.sock_sendto raised (OSError): nothing went out.
SendtoRaised ==
    /\ hb.pc = "sendto"
    /\ hb' = IF AfterSendtoRaised = "idle"
             THEN Ended("raised")
             ELSE [hb EXCEPT !.pc = AfterSendtoRaised]
    /\ UNCHANGED <<hrtbt, val, raddr, rport, aaddr, aport, itrig, isup, sock, ticks,
                   self_incarnation, startup>>
    /\ UNCHANGED <<call, robotVars>>
    /\ UNCHANGED channelVars

\* `await self.val.write(next_heartbeat)`
ValWrite ==
    /\ hb.pc = "write"
    /\ val' = hb.next_heartbeat
    /\ hb' = Ended("sent")
    /\ UNCHANGED <<hrtbt, raddr, rport, aaddr, aport, itrig, isup, sock, ticks,
                   self_incarnation, startup>>
    /\ UNCHANGED <<call, robotVars>>
    /\ UNCHANGED channelVars

NextAlive ==
    \/ Startup
    \/ StartupHost
    \/ StartupPort
    \/ HrtbtPut
    \/ ItrigPut
    \/ IsupPut
    \/ AhostPut
    \/ AportPut
    \/ SendHeartbeat
    \/ SendtoReturned
    \/ SendtoRaised
    \/ ValWrite

SpecAlive == Init /\ [][NextAlive]_vars

-----------------------------------------------------------------------------
(* RobotDriver, the command channel to the dashboard server of the robot,  *)
(* and DashboardGroup, whose scans and puts use it.                        *)
(*                                                                         *)
(* A text is the sequence of its pieces; the stream from the robot is a    *)
(* sequence of pieces and line terminators, and recv(1) reads one of them. *)
(* send_and_receive runs in a thread of the executor: each call of the     *)
(* socket is a step, and the robot acts between the steps.                 *)

\* Number of dashboard handlers started in one behaviour.
MaxExchanges == 2

\* The fields that a scan polls, and the triggers that a client puts to.
Polled == {"remote_control", "program_running", "safety_status"}

Triggers == {"play"}

\* The `message` argument of each scan_command / put_command.
message_of(f) ==
    CASE f = "remote_control" -> "is in remote control"
      [] f = "program_running" -> "running"
      [] f = "safety_status" -> "safetystatus"
      [] f = "play" -> "play"

\* The `fmt` argument of each scan_command / put_command.
fmt_of(f) ==
    CASE f = "remote_control" -> "(.+)"
      [] f = "program_running" -> "Program running: (true|false)"
      [] f = "safety_status" -> "Safetystatus: (.+)"
      [] f = "play" -> "Starting program"

\* The scans that pass `convert=lambda x: x == "true"`.
Converted == {"remote_control", "program_running"}

\* The PVs of type bool: a write stores the enum string of the value.
BoolFields == {"remote_control", "program_running", "play"}

\* What the dashboard server sends on accept, in the two pieces it may arrive
\* in.
Greeting == <<"Connected: ", "Universal Robots Dashboard Server", "\n">>

\* The lines the robot may answer a command with.
Answers(command) ==
    CASE command = "is in remote control" -> {<<"true">>, <<"false">>}
      [] command = "running" ->
             {<<"Program running: ", "true">>, <<"Program running: ", "false">>}
      [] command = "safetystatus" -> {<<"Safetystatus: ", "NORMAL">>}
      [] command = "play" -> {<<"Starting program">>, <<"Failed to execute: play">>}

\* re.match(fmt, reply) for the formats above: whether the start of the reply
\* matches, the number of groups of the format, and what group 1 holds.
re_match(fmt, reply) ==
    CASE fmt = "(.+)" ->
             [matched |-> reply # <<>>, groups |-> 1, group1 |-> reply]
      [] fmt = "Program running: (true|false)" ->
             [matched |-> /\ Len(reply) >= 2
                          /\ reply[1] = "Program running: "
                          /\ reply[2] \in {"true", "false"},
              groups |-> 1,
              group1 |-> IF Len(reply) >= 2 THEN <<reply[2]>> ELSE <<>>]
      [] fmt = "Safetystatus: (.+)" ->
             [matched |-> Len(reply) >= 2 /\ reply[1] = "Safetystatus: ",
              groups |-> 1,
              group1 |-> IF reply # <<>> THEN Tail(reply) ELSE <<>>]
      [] fmt = "Starting program" ->
             [matched |-> reply # <<>> /\ reply[1] = "Starting program",
              groups |-> 0,
              group1 |-> <<>>]

\* A list of exceptions without TimeoutError.
CaughtNoTimeout ==
    {"ConnectionResetError", "ConnectionAbortedError", "BrokenPipeError"}

\* send_and_receive: the exceptions of the except clause.
Caught ==
    {"ConnectionResetError", "ConnectionAbortedError", "BrokenPipeError",
     "TimeoutError"}

\* What a call of the socket may raise: an exception of the list, or another
\* OSError.
SocketErrors ==
    {"ConnectionResetError", "ConnectionAbortedError", "BrokenPipeError",
     "TimeoutError", "OSError"}

\* A get_reply that keeps the line terminator.
ReplyWithTerminator(collected, part) == collected \o <<part>>

\* get_reply: the terminator ends the loop and is not collected.
Reply(collected, part) == collected

\* A lock that anyone may take.
LockFreeAlways(l) == TRUE

\* asyncio.Lock: it can be taken when nobody holds it.
LockFree(l) == l = 0

\* A send_command that goes on after a reply that does not match.
MismatchIgnored(matched) == FALSE

\* send_command: `if value is None: ... raise RobotCommandFailed(reply)`
Mismatch(matched) == ~matched

\* What send_and_receive does with an exception e of the socket.
send_and_receive_raises(e) == IF e \in Caught THEN "RobotDisconnected" ELSE e

\* DashboardGroup.send_command after the exchange: exc is what
\* send_and_receive raised ("" when it returned), reply is what it returned.
\* Gives the exception of send_command, its value, and whether the reply was
\* written to the message PV.
send_command(f, exc, reply) ==
    LET m == re_match(fmt_of(f), reply)
    IN  IF exc = "RobotDisconnected"
        THEN [raised |-> "", value |-> PyNoneValue, message |-> FALSE]
        ELSE IF exc # ""
        THEN [raised |-> exc, value |-> PyNoneValue, message |-> FALSE]
        ELSE IF Mismatch(m.matched)
        THEN [raised |-> "RobotCommandFailed", value |-> PyStr(reply),
              message |-> TRUE]
        ELSE IF m.matched /\ m.groups > 0
        THEN [raised |-> "", value |-> PyStr(m.group1), message |-> FALSE]
        ELSE [raised |-> "", value |-> PyNoneValue, message |-> FALSE]

\* lambda x: x == "true"
convert(x) == PyBool(x = PyStr(<<"true">>))

\* reset_trigger
reset_trigger(value) == PyBool(FALSE)

\* The value that scan_command or put_command ends with.
new_val(f, value) ==
    IF f \in Triggers THEN reset_trigger(value)
    ELSE IF f \in Converted THEN convert(value)
    ELSE value

\* What a PV holds after a write of v.
Stored(f, v) ==
    IF f \in BoolFields /\ v = PyBool(TRUE) THEN PyStr(<<"On">>)
    ELSE IF f \in BoolFields /\ v = PyBool(FALSE) THEN PyStr(<<"Off">>)
    ELSE v

\* Whether the handler of f writes its PV: put_command returns the value for
\* the PV, scan_command writes a value that is not None and differs.
Writes(f, raised, v) ==
    /\ raised = ""
    /\ \/ f \in Triggers
       \/ v # PyNoneValue /\ v # fields[f]

\* The exchange of task t has ended: the lock is released, and the handler
\* runs to its end.
HandlerEnds(t, error, reply) ==
    LET f == dash[t].f
        exc == IF error = "" THEN "" ELSE send_and_receive_raises(error)
        r == send_command(f, exc, reply)
        v == new_val(f, r.value)
    IN  /\ lock' = 0
        /\ fields' = [g \in DOMAIN fields |->
                         IF g = f /\ Writes(f, r.raised, v) THEN Stored(f, v)
                         ELSE IF g = "message" /\ r.message THEN PyStr(reply)
                         ELSE fields[g]]
        /\ dash' = [dash EXCEPT ![t] =
                        [@ EXCEPT !.pc = "done",
                                  !.collected = <<>>,
                                  !.error = error,
                                  !.exchange = IF exc = "" THEN "returned" ELSE exc,
                                  !.reply = IF exc = "" THEN PyStr(reply) ELSE PyNoneValue,
                                  !.raised = r.raised,
                                  !.value = r.value,
                                  !.ended = IF Writes(f, r.raised, v)
                                            THEN "written" ELSE "unchanged"]]

\* RobotIOC.__init__ constructs the RobotDriver of src/austin/driver.py, whose
\* __init__ calls connect(): a failure of sock.connect is logged, after a
\* success the flag is set and the greeting is read.
RobotIOCConnect ==
    /\ ioc.state = "new"
    /\ \E connected \in BOOLEAN, greeting \in {"all", "part", "raise"} :
           IF ~connected
           THEN /\ is_connected' = FALSE
                /\ ioc' = [class |-> "RobotIOC", state |-> "running"]
                /\ UNCHANGED <<transport, inbound>>
           ELSE /\ is_connected' = TRUE
                /\ transport' = [transport EXCEPT !.opened = TRUE,
                                                  !.greeted = greeting # "raise"]
                /\ inbound' = IF greeting = "part" THEN Tail(Greeting) ELSE <<>>
                /\ ioc' = [class |-> "RobotIOC",
                           state |-> IF greeting = "raise" THEN "failed"
                                     ELSE "running"]
    /\ UNCHANGED <<pending, lock, dash, fields, exchanges>>
    /\ UNCHANGED <<robotVars, aliveVars>>

\* AustinIOC.__init__ constructs the RobotDriver of src/src/austin/driver.py,
\* whose __init__ calls connect(): the arm, the socket, the greeting, the
\* gripper; an exception of any of them leaves connect() and the constructor,
\* the flag is set at the end.
AustinIOCConnect ==
    /\ ioc.state = "new"
    /\ \E reached \in {"Robot", "sock.connect", "sock.recv", "gripper.connect", "end"},
          greeting \in {"all", "part"} :
           /\ is_connected' = (reached = "end")
           /\ transport' = [transport EXCEPT
                                !.opened = reached \in {"sock.recv", "gripper.connect", "end"},
                                !.greeted = reached \in {"gripper.connect", "end"}]
           /\ inbound' = IF reached \in {"gripper.connect", "end"} /\ greeting = "part"
                         THEN Tail(Greeting)
                         ELSE <<>>
           /\ ioc' = [class |-> "AustinIOC",
                      state |-> IF reached = "end" THEN "running" ELSE "failed"]
    /\ UNCHANGED <<pending, lock, dash, fields, exchanges>>
    /\ UNCHANGED <<robotVars, aliveVars>>

\* A scan of a polled field comes due, or a client puts to a trigger: the
\* handler calls send_command, which takes the lock if it is free.  Task
\* records are interchangeable: the lowest free one serves.
DashStart(t) ==
    /\ ioc.state = "running"
    /\ dash[t].pc = "idle"
    /\ \A u \in DashTasks : u < t => dash[u].pc # "idle"
    /\ exchanges < MaxExchanges
    /\ exchanges' = exchanges + 1
    /\ \E f \in Polled \cup Triggers :
           /\ f \in Polled => \A u \in DashTasks : dash[u].f # f
           /\ LET free == LockFree(lock) /\ \A u \in DashTasks : dash[u].pc # "lock"
              IN  /\ dash' = [dash EXCEPT ![t] =
                                 [@ EXCEPT !.f = f,
                                           !.pc = IF free THEN "sendall" ELSE "lock"]]
                  /\ lock' = IF free THEN t ELSE lock
    /\ UNCHANGED <<ioc, is_connected, transport, inbound, pending, fields>>
    /\ UNCHANGED <<robotVars, aliveVars>>

\* A handler that waited for the lock takes it.
DashAcquire(t) ==
    /\ dash[t].pc = "lock"
    /\ LockFree(lock)
    /\ lock' = t
    /\ dash' = [dash EXCEPT ![t] = [@ EXCEPT !.pc = "sendall"]]
    /\ UNCHANGED <<ioc, is_connected, transport, inbound, pending, fields, exchanges>>
    /\ UNCHANGED <<robotVars, aliveVars>>

\* send_and_receive: sock.sendall((command + "\n").encode()) returns.
Sendall(t) ==
    /\ dash[t].pc = "sendall"
    /\ transport.opened
    /\ pending' = IF transport.closed THEN pending
                  ELSE pending \o <<message_of(dash[t].f), "\n">>
    /\ dash' = [dash EXCEPT ![t] = [@ EXCEPT !.pc = "recv", !.sends = @ + 1]]
    /\ UNCHANGED <<ioc, is_connected, transport, inbound, lock, fields, exchanges>>
    /\ UNCHANGED <<robotVars, aliveVars>>

\* send_and_receive: sock.sendall raises.
SendallRaises(t) ==
    /\ dash[t].pc = "sendall"
    /\ \E e \in SocketErrors : HandlerEnds(t, e, <<>>)
    /\ UNCHANGED <<ioc, is_connected, transport, inbound, pending, exchanges>>
    /\ UNCHANGED <<robotVars, aliveVars>>

\* get_reply: sock.recv(1) returns one piece of the stream; the terminator
\* ends the loop and send_and_receive returns.
Recv(t) ==
    /\ dash[t].pc = "recv"
    /\ inbound # <<>>
    /\ inbound' = Tail(inbound)
    /\ IF Head(inbound) = "\n"
       THEN HandlerEnds(t, "", Reply(dash[t].collected, Head(inbound)))
       ELSE /\ dash' = [dash EXCEPT ![t] =
                           [@ EXCEPT !.collected = Append(@, Head(inbound))]]
            /\ UNCHANGED <<lock, fields>>
    /\ UNCHANGED <<ioc, is_connected, transport, pending, exchanges>>
    /\ UNCHANGED <<robotVars, aliveVars>>

\* get_reply: the peer has closed and nothing is left to read: sock.recv(1)
\* returns b"", which is not the terminator, and the loop goes on.
RecvEndOfStream(t) ==
    /\ dash[t].pc = "recv"
    /\ inbound = <<>>
    /\ transport.closed
    /\ dash' = [dash EXCEPT ![t] = [@ EXCEPT !.eof = TRUE]]
    /\ UNCHANGED <<ioc, is_connected, transport, inbound, pending, lock, fields,
                   exchanges>>
    /\ UNCHANGED <<robotVars, aliveVars>>

\* get_reply: sock.recv(1) raises while it waits for the robot.
RecvRaises(t) ==
    /\ dash[t].pc = "recv"
    /\ inbound = <<>>
    /\ ~transport.closed
    /\ \E e \in SocketErrors : HandlerEnds(t, e, <<>>)
    /\ UNCHANGED <<ioc, is_connected, transport, inbound, pending, exchanges>>
    /\ UNCHANGED <<robotVars, aliveVars>>

\* The caller has its reply (or its error); the task record is free again.
DashRetire(t) ==
    /\ dash[t].pc = "done"
    /\ dash' = [dash EXCEPT ![t] = NoHandler]
    /\ UNCHANGED <<ioc, is_connected, transport, inbound, pending, lock, fields,
                   exchanges>>
    /\ UNCHANGED <<robotVars, aliveVars>>

\* The robot reads the oldest command line it has not read, and answers it.
RobotAnswers ==
    /\ Len(pending) >= 2
    /\ pending[2] = "\n"
    /\ ~transport.closed
    /\ \E line \in Answers(Head(pending)) : inbound' = inbound \o line \o <<"\n">>
    /\ pending' = Tail(Tail(pending))
    /\ UNCHANGED <<ioc, is_connected, transport, lock, dash, fields, exchanges>>
    /\ UNCHANGED <<robotVars, aliveVars>>

\* The robot closes the connection.
RobotCloses ==
    /\ transport.opened
    /\ ~transport.closed
    /\ transport' = [transport EXCEPT !.closed = TRUE]
    /\ pending' = <<>>
    /\ UNCHANGED <<ioc, is_connected, inbound, lock, dash, fields, exchanges>>
    /\ UNCHANGED <<robotVars, aliveVars>>

NextChannel ==
    \/ RobotIOCConnect
    \/ AustinIOCConnect
    \/ \E t \in DashTasks : DashStart(t)
    \/ \E t \in DashTasks : DashAcquire(t)
    \/ \E t \in DashTasks : Sendall(t)
    \/ \E t \in DashTasks : SendallRaises(t)
    \/ \E t \in DashTasks : Recv(t)
    \/ \E t \in DashTasks : RecvEndOfStream(t)
    \/ \E t \in DashTasks : RecvRaises(t)
    \/ \E t \in DashTasks : DashRetire(t)
    \/ RobotAnswers
    \/ RobotCloses

SpecChannel == Init /\ [][NextChannel]_vars

\* The executor thread that runs send_and_receive keeps running: each call of
\* the socket returns or raises, the socket having a timeout.
SpecChannelLive ==
    /\ SpecChannel
    /\ \A t \in DashTasks :
           WF_vars(Sendall(t) \/ SendallRaises(t) \/ Recv(t) \/ RecvEndOfStream(t)
                   \/ RecvRaises(t))

-----------------------------------------------------------------------------
(* RobotDriver: pick and place.                                            *)
(*                                                                         *)
(* A pose is a tuple of six numbers in units of 0.0001 (metres for x, y,   *)
(* z; radians for rotations and joints).  A call of pickj, pickl, placej   *)
(* or placel gives the commands it sends to the arm and to the gripper, in *)
(* order; when a command raises, the call ends there.                      *)

\* Goals of a pick or a place: sample positions 0, 5, 8 and 23 of the board,
\* the stage position, and the default arguments of the action handlers.
Goals ==
    {<<-2297, 4354, 609, -22440, 22000, 90>>,
     <<1518, 4354, 609, -22440, 22000, 90>>,
     <<-771, 3572, 609, -22440, 22000, 90>>,
     <<1518, 2007, 609, -22440, 22000, 90>>,
     <<2085, -4189, -606, -28930, -12260, -30>>,
     <<0, 0, 0, 0, 0, 0>>}

\* The positions that the action handlers pass for the open and the closed
\* gripper.
GripperPositions == [opn |-> 120, cls |-> 200]

\* pose with d added, component by component.
Offset(pose, d) == [i \in 1..6 |-> pose[i] + d[i]]

\* self.ur.movel(pos, acc, vel, wait=True)
ur_movel(pos) == [c |-> "movel", to |-> pos, relative |-> FALSE]

\* self.ur.movej(joints, acc, vel, wait=True, relative=...)
ur_movej(joints, relative) == [c |-> "movej", to |-> joints, relative |-> relative]

\* self.gripper.move_and_wait_for_pos(pos, gripper_vel, gripper_frc)
move_and_wait_for_pos(pos) == [c |-> "gripper", to |-> <<pos>>, relative |-> FALSE]

\* RobotDriver.pickj
pickj(pick_goal, gripper_pos_opn, gripper_pos_cls) ==
    LET above_goal == Offset(pick_goal, <<0, 2180, -8270, 6100, 0, 0>>)
    IN  <<ur_movej(above_goal, FALSE),
          move_and_wait_for_pos(gripper_pos_opn),
          ur_movej(pick_goal, FALSE),
          move_and_wait_for_pos(gripper_pos_cls),
          ur_movej(above_goal, FALSE)>>

\* RobotDriver.pickl
pickl(goal, gripper_pos_opn, gripper_pos_cls) ==
    LET pick_goal == Offset(goal, <<0, 0, 2350, 0, 0, 0>>)
        is_board == pick_goal[2] > 0
        outside_range ==
            pick_goal[1] * pick_goal[1] + pick_goal[2] * pick_goal[2] > 15000000
        above_goal ==
            IF outside_range /\ is_board
            THEN Offset(pick_goal, <<0, -762, 1340, 1030, -1040, 1510>>)
            ELSE Offset(pick_goal, <<0, 0, 1340, 0, 0, 0>>)
    IN  <<ur_movel(above_goal),
          move_and_wait_for_pos(gripper_pos_opn),
          ur_movel(pick_goal),
          move_and_wait_for_pos(gripper_pos_cls),
          ur_movej(<<0, 0, 0, 0, 0, 870>>, TRUE),
          ur_movel(above_goal)>>

\* RobotDriver.placej
placej(place_goal, gripper_pos_opn, gripper_pos_cls) ==
    LET above_goal == Offset(place_goal, <<0, 700, -6140, 5440, 0, 0>>)
    IN  <<ur_movej(above_goal, FALSE),
          ur_movej(place_goal, FALSE),
          move_and_wait_for_pos(gripper_pos_opn),
          ur_movej(above_goal, FALSE)>>

\* A placel that closes the gripper before it opens it.
placelClosesFirst(goal, gripper_pos_opn, gripper_pos_cls) ==
    LET place_goal == Offset(goal, <<0, 0, 2370, 0, 0, 0>>)
        above_goal == Offset(place_goal, <<0, 0, 1320, 0, 0, 0>>)
    IN  <<ur_movel(above_goal),
          ur_movel(place_goal),
          move_and_wait_for_pos(gripper_pos_cls),
          move_and_wait_for_pos(gripper_pos_opn),
          ur_movel(above_goal)>>

\* RobotDriver.placel
placel(goal, gripper_pos_opn, gripper_pos_cls) ==
    LET place_goal == Offset(goal, <<0, 0, 2370, 0, 0, 0>>)
        is_board == place_goal[2] > 0
        outside_range ==
            place_goal[1] * place_goal[1] + place_goal[2] * place_goal[2] > 15000000
        above_goal ==
            IF outside_range /\ is_board
            THEN Offset(place_goal, <<0, -762, 1320, 1030, -1040, 1510>>)
            ELSE Offset(place_goal, <<0, 0, 1320, 0, 0, 0>>)
    IN  <<ur_movel(above_goal),
          ur_movel(place_goal),
          move_and_wait_for_pos(gripper_pos_opn),
          ur_movel(above_goal)>>

\* The commands of each method.
Commands(f, goal) ==
    CASE f = "pickj" -> pickj(goal, GripperPositions.opn, GripperPositions.cls)
      [] f = "pickl" -> pickl(goal, GripperPositions.opn, GripperPositions.cls)
      [] f = "placej" -> placej(goal, GripperPositions.opn, GripperPositions.cls)
      [] f = "placel" -> placel(goal, GripperPositions.opn, GripperPositions.cls)

\* A call of a pick or a place: every command returns (raises_at = 0), or
\* command number raises_at raises and the call ends with its exception.
DriverCall ==
    /\ call = NoCall
    /\ \E f \in {"pickj", "pickl", "placej", "placel"}, goal \in Goals :
           \E raises_at \in 0..Len(Commands(f, goal)) :
               call' = [f |-> f,
                        args |-> <<goal, raises_at>>,
                        result |-> IF raises_at = 0 THEN Commands(f, goal)
                                   ELSE SubSeq(Commands(f, goal), 1, raises_at)]
    /\ UNCHANGED beaconVars
    /\ UNCHANGED robotVars
    /\ UNCHANGED channelVars

NextDriver ==
    \/ DriverCall
    \/ CallReturns

SpecDriver == Init /\ [][NextDriver]_vars

-----------------------------------------------------------------------------
(* Properties of the execution permit, checked under Spec.                 *)

\* The handlers that have locked and not yet unlocked.
Holders == {t \in Tasks : pc[t] \in Critical}

\* C1: at most one action holds the execution permit at any time; lock() never
\* succeeds for a second action while a first has locked and not yet unlocked.
C1_MutualExclusion ==
    /\ Cardinality(Holders) <= 1
    /\ \A t \in Holders : _lock /\ holder = t

\* Two actions were requested together: one holds the permit and runs its
\* driver call, the other was refused.
C1_Witness ==
    \E t, u \in Tasks :
        /\ t # u
        /\ pc[t] = "executing"
        /\ pc[u] = "raised"
        /\ outcome[u] = "RobotBusy"

\* C2: every command that moves the robot or the gripper is in flight only
\* while the action that issued it holds the execution permit.
C2_MotionOnlyUnderPermit == \A t \in moving : _lock /\ holder = t

\* C4: from the return of lock() until the call of unlock(), the busy flag
\* reads true.
C4_BusyWhileHeld ==
    \A t \in Tasks : pc[t] \in {"executing", "finally", "unlock"} => busy = TRUE

\* C5: a lock() called while another action has locked and not unlocked fails
\* with RobotBusy; a lock() called when every earlier holder has unlocked
\* succeeds.
C5_LockTwice ==
    [][\A t \in Tasks :
          (pc[t] = "lock" /\ pc'[t] # "lock") =>
              IF Holders # {}
              THEN pc'[t] = "raised" /\ outcome'[t] = "RobotBusy"
              ELSE pc'[t] = "lock_busy" /\ _lock' /\ holder' = t]_vars

\* One action has locked, moved and unlocked; after it a second one holds the
\* permit, and a third was refused.
C5_Witness ==
    \E t, u, v \in Tasks :
        /\ pc[t] = "returned" /\ op[t] = "transfer" /\ executed[t]
        /\ pc[u] = "raised" /\ outcome[u] = "RobotBusy"
        /\ pc[v] = "lock_busy" /\ holder = v

\* C6: an action that acquired the permit releases it on every exit path: the
\* permit is held only by a handler still between lock() and unlock(), and a
\* run() that has returned, its driver call having returned or raised, holds
\* nothing.
C6_ReleasedOnEveryPath ==
    /\ _lock => \E t \in Holders : holder = t
    /\ \A t \in Tasks :
           (op[t] = "transfer" /\ pc[t] \in {"returned", "unlock_busy"}) => holder # t

\* The driver call of one action raised, run() has returned, and a later lock()
\* by another action has succeeded.
C6_Witness ==
    \E t, u \in Tasks :
        /\ pc[t] = "returned" /\ op[t] = "transfer" /\ outcome[t] = "DriverError"
        /\ pc[u] = "executing" /\ holder = u

\* C7: a request made while the permit is held is refused at once with
\* RobotBusy and is never queued: its driver call is never run, and the refusal
\* leaves the permit, its holder and the holder's motion as they were.
C7_RejectedAtOnce ==
    /\ [](\A t \in Tasks :
              outcome[t] = "RobotBusy" =>
                  pc[t] = "raised" /\ ~executed[t] /\ t \notin moving)
    /\ [][\A t \in Tasks :
              (pc[t] = "lock" /\ pc'[t] # "lock" /\ Holders # {}) =>
                  /\ pc'[t] = "raised"
                  /\ outcome'[t] = "RobotBusy"
                  /\ UNCHANGED <<_lock, holder, busy, moving>>
                  /\ \A u \in Tasks \ {t} : pc'[u] = pc[u]]_vars

\* A request was refused, the holder has since released the permit and
\* returned, and the refused request has still not run its driver call.
C7_Witness ==
    \E t, u \in Tasks :
        /\ pc[t] = "raised" /\ outcome[t] = "RobotBusy" /\ ~executed[t]
        /\ pc[u] = "returned" /\ op[u] = "transfer" /\ outcome[u] = "ok"
        /\ _lock = FALSE

-----------------------------------------------------------------------------
(* Properties of the sample slots, checked under SpecSamples.              *)

\* The primitive of its own sequence that a load or an unload starts with.
FirstPrimitive(t) ==
    IF op[t] = "load"
    THEN RunAction("pickl", "sample_position", arg[t])
    ELSE RunAction("movel", "waypoint", waypoints[1])

\* Task t runs a load or an unload, has issued the first primitive of that
\* sequence and has a primitive left to finish.
MidSequence(t) ==
    /\ op[t] \in {"load", "unload"}
    /\ pc[t] \in {"ready", "moving"}
    /\ \E i \in 1..Len(trace[t]) : trace[t][i] = FirstPrimitive(t)
    /\ \E i \in 1..Len(todo[t]) : todo[t][i][1] = "run_action"

\* C3: a load or unload sequence holds the permit from its first primitive to
\* its last, so no motion command of another action runs between two
\* primitives of the sequence.
C3_SequenceUninterrupted ==
    \A t \in SampleTasks : MidSequence(t) => moving \subseteq {t}

\* The slot whose unload ran inside the load of task t, None if there was none.
Unloaded(t) ==
    IF \E j \in Slots : \E i \in 1..Len(trace[t]) :
           trace[t][i] = RunAction("pickl", "stage_position", j)
    THEN CHOOSE j \in Slots : \E i \in 1..Len(trace[t]) :
             trace[t][i] = RunAction("pickl", "stage_position", j)
    ELSE None

\* The place of command c in the history of task t, 0 when it is not there.
Index(t, c) ==
    IF \E i \in 1..Len(trace[t]) : trace[t][i] = c
    THEN CHOOSE i \in 1..Len(trace[t]) : trace[t][i] = c
    ELSE 0

\* C8: a load(i) that found the stage occupied by a slot j # i has run the
\* complete unload of j before its own first motion, and at the step it
\* finishes the stage occupant is i, slot j is present and slot i is not.
C8_LoadReplacesOccupant ==
    [][\A t \in SampleTasks :
          (/\ op[t] = "load"
           /\ pc[t] # "returned"
           /\ pc'[t] = "returned"
           /\ outcome'[t] = "ok"
           /\ Unloaded(t) \notin {None, arg[t]}) =>
              /\ Index(t, Write("present", "1", Unloaded(t))) > 0
              /\ Index(t, Write("present", "1", Unloaded(t)))
                     < Index(t, RunAction("pickl", "sample_position", arg[t]))
              /\ current_sample' = arg[t]
              /\ present'[Unloaded(t)] = TRUE
              /\ present'[arg[t]] = FALSE]_vars

\* C9: the stage has at most one occupant: while a load places its sample at
\* the stage position, no other slot is the stage occupant.
C9_OneOccupant ==
    \A t \in SampleTasks :
        (/\ op[t] = "load"
         /\ pc[t] = "moving"
         /\ Cmd(t) = RunAction("placel", "stage_position", arg[t])) =>
            current_sample \in {None, arg[t]}

\* A put of "On" to sample<s>:load is taken by task t in this step.
LoadRequested(t, s) ==
    /\ pc[t] = "idle"
    /\ pc'[t] # "idle"
    /\ op'[t] = "load"
    /\ arg'[t] = s
    /\ outcome'[t] # "ignored"

\* What a load refused for an empty slot leaves behind: the slot-empty error,
\* nothing of the handler left to run, no motion, the occupant as it was.
RefusedEmpty(t) ==
    /\ pc'[t] = "raised"
    /\ outcome'[t] = "SlotEmpty"
    /\ todo'[t] = <<>>
    /\ executed'[t] = FALSE
    /\ UNCHANGED <<moving, current_sample, trace, permitVars>>

\* C10, as stated: load(i) on a slot whose presence flag is false fails with
\* the slot-empty error, issues no motion command and leaves the occupant.
C10_EmptySlotRefused ==
    [][\A t \in SampleTasks, s \in Slots :
          (LoadRequested(t, s) /\ present[s] = FALSE) => RefusedEmpty(t)]_vars

\* C10, amended: load(i) on a calibrated slot whose presence flag is false fails
\* with the slot-empty error, issues no motion command at any later time and
\* leaves the occupant.
C10_EmptyCalibratedSlotRefused ==
    /\ [](\A t \in SampleTasks :
              outcome[t] = "SlotEmpty" =>
                  pc[t] = "raised" /\ ~executed[t] /\ t \notin moving /\ trace[t] = <<>>)
    /\ [][\A t \in SampleTasks, s \in Slots :
              (LoadRequested(t, s) /\ present[s] = FALSE /\ stage_position[s] # None) =>
                  RefusedEmpty(t)]_vars

\* A load of an empty slot was refused while another slot occupies the stage:
\* the occupant was not unloaded.
C10_Witness ==
    \E t \in SampleTasks :
        /\ op[t] = "load"
        /\ outcome[t] = "SlotEmpty"
        /\ present[arg[t]] = FALSE
        /\ current_sample \notin {None, arg[t]}

\* What a load refused for missing calibration leaves behind: the
\* not-calibrated error, nothing of the handler left to run, no motion, the
\* occupant and the presence flags as they were.
RefusedNotCalibrated(t) ==
    /\ pc'[t] = "raised"
    /\ outcome'[t] = "NotCalibrated"
    /\ todo'[t] = <<>>
    /\ executed'[t] = FALSE
    /\ UNCHANGED <<moving, current_sample, present, empty, trace, permitVars>>

\* C11: load(i) on a slot whose stage position or sample position is unset
\* fails with the not-calibrated error before any other check or motion, also
\* when the slot is empty; it issues no motion command at any later time and
\* leaves the stage occupant and the presence flags unchanged.
C11_NotCalibratedRefused ==
    /\ [](\A t \in SampleTasks :
              outcome[t] = "NotCalibrated" =>
                  pc[t] = "raised" /\ ~executed[t] /\ t \notin moving /\ trace[t] = <<>>)
    /\ [][\A t \in SampleTasks, s \in Slots :
              (/\ LoadRequested(t, s)
               /\ (stage_position[s] = None \/ sample_position[s] = None)) =>
                  RefusedNotCalibrated(t)]_vars

\* A load of an empty, uncalibrated slot was refused: the error names the
\* calibration, not the empty slot.
C11_Witness ==
    \E t \in SampleTasks :
        /\ op[t] = "load"
        /\ outcome[t] = "NotCalibrated"
        /\ stage_position[arg[t]] = None
        /\ present[arg[t]] = FALSE

\* C12: no unload issues a motion command for a slot whose stage position or
\* sample position is unset: a direct unload moves only for a calibrated slot,
\* and a pick at the stage position, which only an unload issues (direct, via
\* unload_current_sample or nested in a load), has a stage position to go to.
C12_UnloadCalibrated ==
    \A t \in SampleTasks :
        /\ (op[t] = "unload" /\ t \in moving) =>
               check_calibration(arg[t]) = "ok"
        /\ (/\ t \in moving
            /\ Cmd(t)[1] = "run_action"
            /\ Cmd(t)[2] = "pickl"
            /\ Cmd(t)[3] = "stage_position") =>
               check_calibration(Cmd(t)[4]) = "ok"

\* The steps of an unload of slot i: those the claim gives, and between the
\* clearing of the occupant and the presence write a move to the first
\* waypoint.
UnloadSteps(i) ==
    << <<"run_action", "movel", "waypoint", "0">>,
       <<"run_action", "movel", "waypoint", "1">>,
       <<"run_action", "pickl", "stage_position", i>>,
       <<"run_action", "movel", "waypoint", "1">>,
       <<"run_action", "movel", "waypoint", "0">>,
       <<"run_action", "placel", "sample_position", i>>,
       <<"write", "current_sample", None, None>>,
       <<"run_action", "movel", "waypoint", "0">>,
       <<"write", "present", "1", i>> >>

\* The steps of a load of slot i, in the order the claim gives them.
LoadSteps(i) ==
    << <<"run_action", "pickl", "sample_position", i>>,
       <<"run_action", "movel", "waypoint", "0">>,
       <<"run_action", "movel", "waypoint", "1">>,
       <<"run_action", "placel", "stage_position", i>>,
       <<"write", "current_sample", i, None>>,
       <<"run_action", "movel", "waypoint", "1">>,
       <<"run_action", "movel", "waypoint", "0">> >>

\* The last n entries of a sequence.
Last(seq, n) == SubSeq(seq, Len(seq) - n + 1, Len(seq))

\* C13: a successful load(i) has performed, after the unload of an earlier
\* occupant if there was one, exactly: pick at the sample position, waypoints
\* forward, place at the stage position, record occupant i, waypoints in
\* reverse; a step is issued only when the one before it has completed, so the
\* command in flight is always the last one issued.
C13_LoadOrder ==
    \A t \in SampleTasks :
        /\ (op[t] = "load" /\ pc[t] = "returned" /\ outcome[t] = "ok") =>
               /\ Len(trace[t]) >= Len(LoadSteps(arg[t]))
               /\ Last(trace[t], Len(LoadSteps(arg[t]))) = LoadSteps(arg[t])
               /\ \/ Len(trace[t]) = Len(LoadSteps(arg[t]))
                  \/ \E j \in Slots : trace[t] = UnloadSteps(j) \o LoadSteps(arg[t])
        /\ (op[t] = "load" /\ t \in moving) =>
               pc[t] = "moving" /\ trace[t] # <<>> /\ trace[t][Len(trace[t])] = Cmd(t)
        /\ (op[t] = "load" /\ pc[t] # "moving") => t \notin moving

\* A load has returned successfully and its slot is the stage occupant.
C13_Witness ==
    \E t \in SampleTasks :
        /\ op[t] = "load" /\ pc[t] = "returned" /\ outcome[t] = "ok"
        /\ current_sample = arg[t]
        /\ Len(trace[t]) = Len(LoadSteps(arg[t]))

\* The steps of an unload of slot i as the claim gives them.
UnloadStepsClaimed(i) ==
    << <<"run_action", "movel", "waypoint", "0">>,
       <<"run_action", "movel", "waypoint", "1">>,
       <<"run_action", "pickl", "stage_position", i>>,
       <<"run_action", "movel", "waypoint", "1">>,
       <<"run_action", "movel", "waypoint", "0">>,
       <<"run_action", "placel", "sample_position", i>>,
       <<"write", "current_sample", None, None>>,
       <<"write", "present", "1", i>> >>

\* C14, as stated: a successful unload(i) performs exactly waypoints forward,
\* pick at the stage position, waypoints in reverse, place at the sample
\* position, clear the occupant, mark slot i present, and no other motion.
C14_UnloadOrderClaimed ==
    \A t \in SampleTasks :
        (op[t] = "unload" /\ pc[t] = "returned" /\ outcome[t] = "ok") =>
            trace[t] = UnloadStepsClaimed(arg[t])

\* C14, amended: a successful unload(i) performs exactly waypoints forward,
\* pick at the stage position, waypoints in reverse, place at the sample
\* position, clear the occupant, a move to the first waypoint, mark slot i
\* present.
C14_UnloadOrder ==
    \A t \in SampleTasks :
        /\ (op[t] = "unload" /\ pc[t] = "returned" /\ outcome[t] = "ok") =>
               trace[t] = UnloadSteps(arg[t])
        /\ (op[t] = "unload" /\ t \in moving) =>
               pc[t] = "moving" /\ trace[t] # <<>> /\ trace[t][Len(trace[t])] = Cmd(t)

\* An unload has returned successfully: its slot is present again and the
\* stage has no occupant.
C14_Witness ==
    \E t \in SampleTasks :
        /\ op[t] = "unload" /\ pc[t] = "returned" /\ outcome[t] = "ok"
        /\ present[arg[t]] = TRUE
        /\ current_sample = None

\* A put of "On" to sample<s>:unload is taken by task t in this step.
UnloadRequested(t, s) ==
    /\ pc[t] = "idle"
    /\ pc'[t] # "idle"
    /\ op'[t] = "unload"
    /\ arg'[t] = s
    /\ outcome'[t] # "ignored"

\* C15: unload(i) on a slot that is marked present fails with the
\* slot-not-empty error, issues no motion command then or later, and leaves
\* the stage occupant and the presence flags unchanged.
C15_PresentSlotRefused ==
    /\ [](\A t \in SampleTasks :
              (op[t] = "unload" /\ outcome[t] = "SlotNotEmpty") =>
                  pc[t] = "raised" /\ ~executed[t] /\ t \notin moving /\ trace[t] = <<>>)
    /\ [][\A t \in SampleTasks, s \in Slots :
              (UnloadRequested(t, s) /\ present[s] = TRUE) =>
                  /\ pc'[t] = "raised"
                  /\ outcome'[t] = "SlotNotEmpty"
                  /\ todo'[t] = <<>>
                  /\ executed'[t] = FALSE
                  /\ UNCHANGED <<moving, current_sample, present, empty, trace,
                                 permitVars>>]_vars

\* An unload of the stage occupant was refused because its shelf position is
\* marked present; the slot is still the occupant.
C15_Witness ==
    \E t \in SampleTasks :
        /\ op[t] = "unload"
        /\ outcome[t] = "SlotNotEmpty"
        /\ present[arg[t]] = TRUE
        /\ current_sample = arg[t]

-----------------------------------------------------------------------------
(* Properties of the heartbeat functions, checked under SpecEncoder.       *)

\* The last call was server_address(ra, rp, aa, ap).
AddressAsked == call.f = "server_address"

\* An (address, port) pair is valid: the address is not empty and not an error
\* sentinel, the port is above 0.
PairValid(addr, port) ==
    /\ addr # ""
    /\ addr # "invalid AHOST"
    /\ addr # "invalid RHOST"
    /\ port > 0

\* C19: server_address returns the auxiliary pair if that pair is valid,
\* otherwise the primary pair if that pair is valid, otherwise (None, None);
\* the address and the port it returns come from the same pair.
C19_AuxiliaryThenPrimary ==
    AddressAsked =>
        LET ra == call.args[1]
            rp == call.args[2]
            aa == call.args[3]
            ap == call.args[4]
        IN  /\ PairValid(aa, ap) => call.result = <<Some(aa), Some(ap)>>
            /\ ~PairValid(aa, ap) /\ PairValid(ra, rp) =>
                   call.result = <<Some(ra), Some(rp)>>
            /\ ~PairValid(aa, ap) /\ ~PairValid(ra, rp) =>
                   call.result = <<PyNone, PyNone>>
            /\ \/ call.result = <<Some(aa), Some(ap)>>
               \/ call.result = <<Some(ra), Some(rp)>>
               \/ call.result = <<PyNone, PyNone>>

\* Both pairs were valid and differ in address and port: the auxiliary pair was
\* returned.
C19_Witness ==
    /\ AddressAsked
    /\ PairValid(call.args[1], call.args[2])
    /\ PairValid(call.args[3], call.args[4])
    /\ call.args[1] # call.args[3]
    /\ call.args[2] # call.args[4]
    /\ call.result = <<Some(call.args[3]), Some(call.args[4])>>

\* The last call was heartbeat_message(...).
MessageAsked == call.f = "heartbeat_message"

\* The big-endian number held by the n bytes of b that follow offset `at`, as a
\* pair <<hi, lo>>.
Unpack(b, at, n) ==
    IF n = 2
    THEN <<0, b[at + 1] * 256 + b[at + 2]>>
    ELSE <<b[at + 1] * 256 + b[at + 2], b[at + 3] * 256 + b[at + 4]>>

\* The pair w is an unsigned number of 32 bits, the integer n one of 16 bits.
IsUnsignedL(w) == w[1] \in 0..65535 /\ w[2] \in 0..65535

IsUnsignedH(n) == n \in 0..65535

\* The arguments of the last call are a valid input of heartbeat_message:
\* every number fits its field and the name is ASCII.
ValidMessageInput ==
    /\ MessageAsked
    /\ IsUnsignedL(call.args[1])
    /\ IsUnsignedL(Plus(round(call.args[2]), Word(-631152000)))
    /\ IsUnsignedL(Plus(round(call.args[3]), Word(-631152000)))
    /\ IsUnsignedL(call.args[4])
    /\ IsUnsignedH(call.args[5])
    /\ IsUnsignedH(call.args[6])
    /\ IsUnsignedH(call.args[7])
    /\ IsUnsignedL(call.args[8])
    /\ \A i \in 1..Len(call.args[9]) : call.args[9][i] \in 0..127

\* C20: for every valid input heartbeat_message returns, big-endian and in
\* this order, the 4-byte magic number, the 2-byte version 5, the 4-byte
\* incarnation time, the 4-byte current time, the 4-byte counter, the 2-byte
\* period, the 2-byte flags, the 2-byte return port, the 4-byte user message,
\* the ASCII name and one null byte: 28 + len(name) + 1 bytes.
C20_MessageLayout ==
    ValidMessageInput =>
        LET b == call.result.bytes
            name == call.args[9]
        IN  /\ call.result.error = ""
            /\ Len(b) = 28 + Len(name) + 1
            /\ \A i \in 1..Len(b) : b[i] \in 0..255
            /\ Unpack(b, 0, 4) = call.args[1]
            /\ Unpack(b, 4, 2) = <<0, 5>>
            /\ Unpack(b, 6, 4) = Plus(round(call.args[2]), Word(-631152000))
            /\ Unpack(b, 10, 4) = Plus(round(call.args[3]), Word(-631152000))
            /\ Unpack(b, 14, 4) = call.args[4]
            /\ Unpack(b, 18, 2) = <<0, call.args[5]>>
            /\ Unpack(b, 20, 2) = <<0, call.args[6]>>
            /\ Unpack(b, 22, 2) = <<0, call.args[7]>>
            /\ Unpack(b, 24, 4) = call.args[8]
            /\ \A i \in 1..Len(name) : b[28 + i] = name[i]
            /\ b[Len(b)] = 0

\* A message of 31 bytes was returned for a name of two letters, with a
\* period, a counter and a port whose two bytes differ.
C20_Witness ==
    /\ ValidMessageInput
    /\ Len(call.args[9]) = 2
    /\ Len(call.result.bytes) = 31
    /\ call.args[4] = <<258, 772>>
    /\ call.args[5] = 15
    /\ call.args[7] = 5000

\* The fields read back from a message b at the fixed offsets, in the order of
\* the arguments of heartbeat_message; the name is what stands between offset
\* 28 and the last byte.
Decode(b) ==
    <<Unpack(b, 0, 4), Unpack(b, 6, 4), Unpack(b, 10, 4), Unpack(b, 14, 4),
      Unpack(b, 18, 2)[2], Unpack(b, 20, 2)[2], Unpack(b, 22, 2)[2],
      Unpack(b, 24, 4), SubSeq(b, 29, Len(b) - 1)>>

\* A number of whole seconds read back from a message, as a time.
Seconds(w) == [s |-> w, frac |-> "0"]

\* C21 as stated: for every valid input, decoding the message at the fixed
\* offsets gives back every field unchanged, the two times included.
C21_RoundTripUnchanged ==
    ValidMessageInput =>
        LET d == Decode(call.result.bytes)
        IN  /\ d[1] = call.args[1]
            /\ Seconds(d[2]) = call.args[2]
            /\ Seconds(d[3]) = call.args[3]
            /\ d[4] = call.args[4]
            /\ d[5] = call.args[5]
            /\ d[6] = call.args[6]
            /\ d[7] = call.args[7]
            /\ d[8] = call.args[8]
            /\ d[9] = call.args[9]

\* C21: for every valid input, decoding the message at the fixed offsets gives
\* back the magic number, the counter, the period, the flags, the port, the
\* user message and the name unchanged, and for each of the two times the time
\* rounded to whole seconds plus the correction -631152000.
C21_RoundTrip ==
    ValidMessageInput =>
        Decode(call.result.bytes) =
            <<call.args[1],
              Plus(round(call.args[2]), Word(-631152000)),
              Plus(round(call.args[3]), Word(-631152000)),
              call.args[4], call.args[5], call.args[6], call.args[7],
              call.args[8], call.args[9]>>

\* A message was returned for times with a fraction of a second, one of them
\* rounded up and one rounded down, and a counter whose halves differ.
C21_Witness ==
    /\ ValidMessageInput
    /\ call.args[2].frac = "lt"
    /\ call.args[3].frac = "gt"
    /\ call.args[4] = <<258, 772>>
    /\ Len(call.args[9]) = 2
    /\ call.result.error = ""

-----------------------------------------------------------------------------
(* Properties of the heartbeat scan, checked under SpecAlive.              *)

\* This step is a scan: send_heartbeat is called.
Tick == hb.pc = "idle" /\ ticks' = ticks + 1

\* Neither the remote nor the auxiliary pair is a valid target.
NoValidTarget == ~PairValid(raddr, rport) /\ ~PairValid(aaddr, aport)

\* C16: a tick with no valid target leaves the counter as it is, a tick whose
\* beacon is transmitted raises it by exactly 1, and between ticks the counter
\* is its start value (0) plus the number of transmissions.
C16_CounterCountsTransmissions ==
    /\ [](hb.pc = "idle" => val = sock.calls)
    /\ [](hb.pc = "sendto" => val = sock.calls)
    /\ [](hb.pc = "write" => val + 1 = sock.calls)
    /\ [][Tick /\ NoValidTarget =>
              hb'.pc = "idle" /\ val' = val /\ sock' = sock]_vars
    /\ [][hb.pc = "write" /\ hb'.pc = "idle" =>
              hb'.how = "sent" /\ val' = val + 1 /\ sock' = sock]_vars
    /\ [][val' # val => hb.pc = "write"]_vars

\* One tick transmitted and the next one found no valid target: the counter is
\* still 1.
C16_Witness ==
    /\ ticks = 2
    /\ hb.pc = "idle"
    /\ hb.how = "skipped"
    /\ NoValidTarget
    /\ sock.calls = 1
    /\ val = 1

\* C17: when the send of a tick raises, the counter keeps the value it had
\* before the tick; the incremented value is written only after the send has
\* returned.
C17_CommitAfterSend ==
    /\ [](hb.pc \in {"sendto", "write"} => hb.next_heartbeat = val + 1)
    /\ [][hb.pc = "sendto" /\ hb' # hb /\ sock' = sock =>
              hb'.pc = "idle" /\ hb'.how = "raised" /\ val' = val]_vars
    /\ [][hb.pc # "write" /\ hb'.pc = "write" =>
              /\ hb.pc = "sendto"
              /\ sock'.calls = sock.calls + 1
              /\ sock'.call_args = <<hb.message, hb.address>>
              /\ val' = val]_vars
    /\ [][val' # val => hb.pc = "write" /\ val' = hb.next_heartbeat]_vars

\* One tick transmitted and the send of the next one raised: the counter is
\* still 1.
C17_Witness ==
    /\ ticks = 2
    /\ hb.pc = "idle"
    /\ hb.how = "raised"
    /\ sock.calls = 1
    /\ val = 1

\* Heartbeating is disabled: .HRTBT is off.
HeartbeatingOff == hrtbt = PyFalse \/ hrtbt = "Off"

\* C18: while heartbeating is disabled a tick sends no datagram and leaves the
\* counter unchanged, whatever targets are configured: send_heartbeat does not
\* go on to the send.
C18_DisabledTickDoesNothing ==
    [][Tick /\ HeartbeatingOff =>
           hb'.pc = "idle" /\ val' = val /\ sock' = sock]_vars

\* C18 for the PV as constructed, before any put to .HRTBT: a tick returns at
\* once.
C18_NeverEnabledTickDoesNothing ==
    [][Tick /\ hrtbt = PyFalse =>
           hb'.pc = "idle" /\ hb'.how = "disabled" /\ val' = val /\ sock' = sock]_vars

\* C18, second half: a tick with .HRTBT on and a valid target sends to the
\* target that server_address selects, and the counter goes up by 1.
C18_EnabledTickSends ==
    /\ [][Tick /\ hrtbt = "On" /\ ~NoValidTarget =>
              /\ hb'.pc = "sendto"
              /\ hb'.address = IF PairValid(aaddr, aport)
                               THEN <<aaddr, aport>>
                               ELSE <<raddr, rport>>
              /\ hb'.next_heartbeat = val + 1]_vars

\* A datagram has gone out; `sock.call_args[1]` is the last one.
Transmitted == sock.calls > 0

\* What a field holds for a Unix time t of the clock: t in whole seconds,
\* shifted by the epoch correction.
ShiftedUnixTimes == {Plus(round(t), Word(-631152000)) : t \in Clock}

\* C22: every transmitted beacon carries, in its incarnation field and in its
\* current-time field, a Unix time of the clock in whole seconds shifted by
\* -631152000.
C22_BeaconTimesShifted ==
    Transmitted =>
        /\ Unpack(sock.call_args[1], 6, 4) \in ShiftedUnixTimes
        /\ Unpack(sock.call_args[1], 10, 4) \in ShiftedUnixTimes

\* What the beacons carry: the Unix time in whole seconds, not shifted.
C22_BeaconTimesUnshifted ==
    Transmitted =>
        /\ Unpack(sock.call_args[1], 6, 4) \in {round(t) : t \in Clock}
        /\ Unpack(sock.call_args[1], 10, 4) \in {round(t) : t \in Clock}

\* The flags that the settings ask for: bit 0 for trigger-info on, bit 1 for
\* suppress-info on.
FlagsOfSettings == (IF itrig = "On" THEN 1 ELSE 0) + (IF isup = "On" THEN 2 ELSE 0)

\* C23: the flags field of a beacon is computed from the settings as they are
\* at its tick: bit 0 exactly when trigger-info is on, bit 1 exactly when
\* suppress-info is on, no other bit.
C23_FlagsFollowSettings ==
    [][Tick /\ hb'.pc = "sendto" =>
           Unpack(hb'.message, 20, 2) = <<0, FlagsOfSettings>>]_vars

\* C23 for settings that are on or were never written: the flags field is as
\* the settings ask.
C23_FlagsFollowSettingsNeverOff ==
    [][Tick /\ hb'.pc = "sendto" /\ itrig # "Off" /\ isup # "Off" =>
           Unpack(hb'.message, 20, 2) = <<0, FlagsOfSettings>>]_vars

-----------------------------------------------------------------------------
(* Properties of the command channel and the dashboard, checked under      *)
(* SpecChannel.                                                            *)

\* The exchange of task t is in flight: send_and_receive is running.
InFlight(t) == dash[t].pc \in {"sendall", "recv"}

\* This step ends the handler of task t.
Ends(t) == InFlight(t) /\ dash'[t].pc = "done"

\* This step is a read of task t from the stream.
Reads(t) == dash[t].pc = "recv" /\ Len(inbound') < Len(inbound)

\* The pieces of a text or of a value.
Pieces(q) == {q[i] : i \in 1..Len(q)}

\* C24: send_and_receive(command) writes the command and one line terminator;
\* every read takes the next piece of the stream; the call returns at the first
\* terminator, with the text read before it and without the terminator, and
\* whatever follows the terminator stays in the stream.
C24_OneLinePerExchange ==
    /\ [](\A t \in DashTasks : "\n" \notin Pieces(dash[t].collected))
    /\ [](\A t \in DashTasks : "\n" \notin Pieces(dash[t].reply))
    /\ [][\A t \in DashTasks :
              dash[t].pc = "sendall" /\ dash'[t].pc = "recv" /\ ~transport.closed =>
                  pending' = pending \o <<message_of(dash[t].f), "\n">>]_vars
    /\ [][\A t \in DashTasks :
              Reads(t) =>
                  /\ inbound' = Tail(inbound)
                  /\ IF Head(inbound) = "\n"
                     THEN /\ dash'[t].pc = "done"
                          /\ dash'[t].exchange = "returned"
                          /\ dash'[t].reply = <<"str">> \o dash[t].collected
                     ELSE /\ dash'[t].pc = "recv"
                          /\ dash'[t].collected =
                                 dash[t].collected \o <<Head(inbound)>>]_vars
    /\ [][\A t \in DashTasks :
              Ends(t) /\ dash'[t].exchange = "returned" => Reads(t)]_vars

\* An exchange returned a line of two pieces while a later line was already in
\* the stream: the later line is still there.
C24_Witness ==
    \E t \in DashTasks :
        /\ dash[t].pc = "done"
        /\ dash[t].exchange = "returned"
        /\ Len(dash[t].reply) = 3
        /\ Len(inbound) >= 2
        /\ inbound[Len(inbound)] = "\n"

\* C25: when the write or a read of send_and_receive raises a connection
\* reset, a connection abort, a broken pipe or a timeout, the call raises
\* RobotDisconnected; the command is written at most once.
C25_DisconnectedNoResend ==
    \A t \in DashTasks :
        /\ dash[t].sends <= 1
        /\ dash[t].error \in {"ConnectionResetError", "ConnectionAbortedError",
                              "BrokenPipeError", "TimeoutError"} =>
               /\ dash[t].exchange = "RobotDisconnected"
               /\ dash[t].reply = PyNoneValue

\* A read timed out after the command was written: the call raised
\* RobotDisconnected and the command went out once.
C25_Witness ==
    \E t \in DashTasks :
        /\ dash[t].pc = "done"
        /\ dash[t].error = "TimeoutError"
        /\ dash[t].exchange = "RobotDisconnected"
        /\ dash[t].sends = 1

\* C26: the connection state is Disconnected after every transport error, an
\* error inside send_and_receive included.
C26_DisconnectedAfterError ==
    \A t \in DashTasks : dash[t].pc = "done" /\ dash[t].error # "" => ~is_connected

\* C26, the other half: the connection state becomes Connected only in
\* connect().
C26_ConnectedOnlyByConnect ==
    [][is_connected' /\ ~is_connected => ioc.state = "new"]_vars

\* C27: after connect() the channel is Connected if and only if the transport
\* was opened and the greeting was read.
C27_ConnectedIffGreeted ==
    ioc.state # "new" => (is_connected <=> transport.opened /\ transport.greeted)

\* C27, the last part: a connect() that did not open the transport leaves the
\* channel Disconnected, and the connection is not attempted again.
C27_FailedConnectNotRetried ==
    /\ [](ioc.state # "new" /\ ~transport.opened => ~is_connected)
    /\ [][ioc.state # "new" => transport'.opened = transport.opened]_vars

\* The reply matches the grammar of the field's command.
Grammatical(f, text) ==
    CASE f = "remote_control" -> Len(text) >= 1
      [] f = "program_running" ->
             /\ Len(text) >= 2
             /\ SubSeq(text, 1, 2) \in {<<"Program running: ", "true">>,
                                        <<"Program running: ", "false">>}
      [] f = "safety_status" -> Len(text) >= 2 /\ text[1] = "Safetystatus: "
      [] f = "play" -> Len(text) >= 1 /\ text[1] = "Starting program"

\* The handler of task t has the reply of its command, and the reply does not
\* match the grammar.
Mismatched(t) ==
    /\ dash[t].pc = "done"
    /\ dash[t].exchange = "returned"
    /\ ~Grammatical(dash[t].f, Tail(dash[t].reply))

\* C28: when the reply does not match the grammar of its command, send_command
\* raises RobotCommandFailed with the raw reply, and the field of the handler
\* keeps its cached value.
C28_MismatchRaises ==
    /\ [](\A t \in DashTasks :
              Mismatched(t) =>
                  /\ dash[t].raised = "RobotCommandFailed"
                  /\ dash[t].value = dash[t].reply
                  /\ dash[t].ended = "unchanged")
    /\ [][\A t \in DashTasks :
              Ends(t) /\ dash'[t].raised = "RobotCommandFailed" =>
                  fields'[dash[t].f] = fields[dash[t].f]]_vars

\* The poll of program_running read the late answer of another command: it
\* raised RobotCommandFailed and the field is as constructed.
C28_Witness ==
    \E t \in DashTasks :
        /\ Mismatched(t)
        /\ dash[t].f = "program_running"
        /\ dash[t].reply # <<"str">>
        /\ dash[t].raised = "RobotCommandFailed"
        /\ fields["program_running"] = <<"False">>

\* C29: a poll in which the channel raises RobotDisconnected writes nothing to
\* the polled field, whatever the field, and raises no error.
C29_DisconnectedPollWritesNothing ==
    [][\A t \in DashTasks :
           Ends(t) /\ dash[t].f \in Polled /\ dash'[t].exchange = "RobotDisconnected" =>
               /\ fields' = fields
               /\ dash'[t].raised = ""]_vars

\* C29 for the fields polled without a converter.
C29_UnconvertedPollWritesNothing ==
    [][\A t \in DashTasks :
           /\ Ends(t)
           /\ dash[t].f \in Polled \ {"remote_control", "program_running"}
           /\ dash'[t].exchange = "RobotDisconnected"
           => /\ fields' = fields
              /\ dash'[t].raised = ""]_vars

\* C30: at most one exchange is in flight at any time; the lock is held by the
\* handler whose exchange is in flight and by nobody otherwise, so it is free
\* as soon as the exchange has ended, whether it returned or raised.
C30_OneExchangeInFlight ==
    /\ \A t, u \in DashTasks : InFlight(t) /\ InFlight(u) => t = u
    /\ \A t \in DashTasks : InFlight(t) <=> lock = t
    /\ lock \in DashTasks \cup {0}

\* The exchange of one handler raised; the other handler, which waited for the
\* lock meanwhile, now holds it and has its exchange in flight.
C30_Witness ==
    \E t, u \in DashTasks :
        /\ dash[t].pc = "done"
        /\ dash[t].error # ""
        /\ dash[u].pc = "recv"
        /\ lock = u

-----------------------------------------------------------------------------
(* Properties of the action handlers and of the done-moving flag, checked  *)
(* under Spec.                                                             *)

\* C32: a pick, place or home request returns to its caller only after the
\* robot has completed the motion: no action handler has returned while its
\* driver call is still running.
C32_ReturnsAfterMotion ==
    \A t \in Tasks : op[t] = "action" /\ pc[t] = "returned" => t \notin moving

\* No transfer action is running: no handler of TransferGroup.run is between
\* its first statement and its return.
NoTransferRunning ==
    \A t \in Tasks : op[t] = "transfer" => pc[t] \in {"idle", "returned", "raised"}

\* C40: whenever no transfer action is running, the done-moving flag reads 1.
C40_DoneMovingWhenIdle == NoTransferRunning => done_moving = 1

-----------------------------------------------------------------------------
(* Properties of load, of the automatic unload, of the calibration loop    *)
(* and of the presence flags, checked under SpecSamples.                   *)

\* This step ends the handler of task t with an exception.
Fails(t) == pc[t] # "raised" /\ pc'[t] = "raised"

\* C33: the core never repeats an operation on its own: when the calibration
\* program has run, whatever its result, the handler does not queue it again.
C33_NoRepeat ==
    [][\A t \in SampleTasks :
           Ready(t, "calibrate") /\ todo'[t] # todo[t] =>
               \A k \in 1..Len(todo'[t]) : todo'[t][k] # Calibrate]_vars

\* C33 for a motion sequence: after RobotBusy or a failed primitive nothing of
\* the handler is left to run, and it issues no further command.
C33_NoRepeatAfterFailure ==
    /\ [](\A t \in SampleTasks : pc[t] = "raised" => todo[t] = <<>> /\ t \notin moving)
    /\ [][\A t \in SampleTasks :
              pc[t] = "raised" => trace'[t] = trace[t] \/ pc'[t] = "idle"]_vars

\* C37: load(i) records slot i as the stage occupant only after its place at
\* the stage position has completed; a step of a load that fails leaves the
\* occupant pointer as it was, and no later step of the load is executed.
C37_OccupantAfterPlace ==
    /\ [](\A t \in SampleTasks :
              op[t] = "load" =>
                  \A k \in 1..Len(trace[t]) :
                      trace[t][k] = Write("current_sample", arg[t], None) =>
                          /\ k > 1
                          /\ trace[t][k - 1] = RunAction("placel", "stage_position", arg[t]))
    /\ [][\A t \in SampleTasks :
              Fails(t) /\ op[t] = "load" =>
                  /\ current_sample' = current_sample
                  /\ todo'[t] = <<>>]_vars
    /\ [][\A t \in SampleTasks :
              op[t] = "load" /\ pc[t] = "raised" =>
                  trace'[t] = trace[t] \/ pc'[t] = "idle"]_vars

\* The place of a load at the stage position failed: the load has ended and
\* the occupant pointer does not name its slot.
C37_Witness ==
    \E t \in SampleTasks :
        /\ op[t] = "load"
        /\ pc[t] = "raised"
        /\ outcome[t] = "DriverError"
        /\ trace[t] # <<>>
        /\ trace[t][Len(trace[t])] = RunAction("placel", "stage_position", arg[t])
        /\ current_sample # arg[t]

\* The automatic unload inside the load of task t has begun and has not
\* ended: the handler is at the call of unload_current_sample with a stage
\* occupant, or commands of the unload are left.
InAutoUnload(t) ==
    /\ op[t] = "load"
    /\ pc[t] \in {"ready", "moving"}
    /\ \/ Cmd(t) = UnloadCurrent /\ current_sample # None
       \/ \E j \in Slots, k \in 1..Len(todo[t]) : todo[t][k] = Write("present", "1", j)

\* The slot that the automatic unload of task t returns its sample to.
UnloadedSlot(t) ==
    IF Cmd(t) = UnloadCurrent THEN current_sample
    ELSE CHOOSE j \in Slots : \E k \in 1..Len(todo[t]) : todo[t][k] = Write("present", "1", j)

\* The commands that load(i) issues for slot i.
OwnCommands(i) ==
    {RunAction("pickl", "sample_position", i), RunAction("placel", "stage_position", i),
     Write("current_sample", i, None)}

\* C38 as stated: when the automatic unload of occupant j fails inside
\* load(i), nothing of the load is left to run and the stage occupant is j.
C38_OccupantRemains ==
    [][\A t \in SampleTasks :
           Fails(t) /\ InAutoUnload(t) =>
               /\ todo'[t] = <<>>
               /\ current_sample' = UnloadedSlot(t)]_vars

\* C38, amended: when the automatic unload of occupant j fails inside load(i),
\* load(i) has issued and will issue no command for slot i, and the failing
\* step leaves the occupant pointer as it was; the unload itself changes the
\* pointer only to None and only after its place of j on its slot, so the
\* pointer is None when the failure comes in the move that follows.
C38_NoCommandForSlot ==
    /\ [][\A t \in SampleTasks :
              Fails(t) /\ InAutoUnload(t) =>
                  /\ todo'[t] = <<>>
                  /\ current_sample' = current_sample
                  /\ \A k \in 1..Len(trace'[t]) : trace'[t][k] \notin OwnCommands(arg[t])]_vars
    /\ [][\A t \in SampleTasks :
              current_sample' # current_sample /\ todo'[t] # todo[t] /\ InAutoUnload(t) =>
                  /\ current_sample' = None
                  /\ trace[t] # <<>>
                  /\ trace[t][Len(trace[t])] =
                         RunAction("placel", "sample_position", UnloadedSlot(t))]_vars

\* The automatic unload failed because the slot of the occupant is marked
\* present: the load has ended without a command and the occupant is still
\* there.
C38_Witness ==
    \E t \in SampleTasks :
        /\ op[t] = "load"
        /\ pc[t] = "raised"
        /\ outcome[t] = "SlotNotEmpty"
        /\ trace[t] = <<>>
        /\ current_sample \notin {None, arg[t]}

\* C39: in every reachable state the present flag and the empty flag of each
\* slot are complements of each other.
C39_PresentEmptyComplement == \A s \in Slots : present[s] # empty[s]

\* C39 after the initial state: once an unload of a slot has returned, the
\* flags of that slot are complements.
C39_ComplementAfterUnload ==
    \A t \in SampleTasks :
        op[t] = "unload" /\ pc[t] = "returned" /\ outcome[t] = "ok" =>
            present[arg[t]] # empty[arg[t]]

-----------------------------------------------------------------------------
(* Properties of the polls and of the replies, checked under SpecChannel   *)
(* and SpecChannelLive.                                                    *)

\* C34: a successful poll writes the polled field only when the parsed value
\* differs from the cached value: a poll that writes changes what the field
\* holds.
C34_WriteOnlyOnChange ==
    [][\A t \in DashTasks :
           /\ Ends(t)
           /\ dash[t].f \in Polled
           /\ dash'[t].exchange = "returned"
           /\ dash'[t].ended = "written"
           => fields'[dash[t].f] # fields[dash[t].f]]_vars

\* C34 for the fields polled without a converter.
C34_UnconvertedWriteOnlyOnChange ==
    [][\A t \in DashTasks :
           /\ Ends(t)
           /\ dash[t].f \in Polled \ {"remote_control", "program_running"}
           /\ dash'[t].exchange = "returned"
           /\ dash'[t].ended = "written"
           => fields'[dash[t].f] # fields[dash[t].f]]_vars

\* What is left of the greeting when connect() has read a part of it.
GreetingRest == {<<"Universal Robots Dashboard Server">>}

\* C35: the reply that send_and_receive(c) returns is the reply of the robot
\* to c (or, at the first exchange, what connect() left of the greeting): when
\* the read of an earlier exchange has timed out, a later exchange does not
\* return the late reply to the earlier command.
C35_ReplyIsOwn ==
    \A t, u \in DashTasks :
        /\ dash[u].pc = "done" /\ dash[u].error = "TimeoutError" /\ dash[u].sends = 1
        /\ dash[t].pc = "done" /\ dash[t].exchange = "returned"
        => Tail(dash[t].reply) \in Answers(message_of(dash[t].f)) \cup GreetingRest

\* C36: every send_and_receive call terminates: an exchange in flight ends.
C36_Terminates ==
    \A t \in DashTasks : InFlight(t) ~> dash[t].pc = "done"

\* C36 without the closed connection: an exchange in flight ends, or the peer
\* has closed and nothing is left to read.
C36_TerminatesUnlessClosed ==
    \A t \in DashTasks :
        InFlight(t) ~> (dash[t].pc = "done" \/ (transport.closed /\ inbound = <<>>))

-----------------------------------------------------------------------------
(* Properties of pick and place, checked under SpecDriver.                 *)

\* A call of a pick (of a place) has run all its commands.
PickDone == call.f \in {"pickj", "pickl"} /\ call.args[2] = 0

PlaceDone == call.f \in {"placej", "placel"} /\ call.args[2] = 0

\* The commands of cmds that move the arm to a pose, that open the gripper,
\* that close it.
ArmMoves(cmds) ==
    {i \in 1..Len(cmds) : cmds[i].c \in {"movel", "movej"} /\ ~cmds[i].relative}

GripperOpens(cmds) ==
    {i \in 1..Len(cmds) : cmds[i].c = "gripper" /\ cmds[i].to = <<GripperPositions.opn>>}

GripperCloses(cmds) ==
    {i \in 1..Len(cmds) : cmds[i].c = "gripper" /\ cmds[i].to = <<GripperPositions.cls>>}

\* cmds has one move to a contact pose at k, one move to the approach pose
\* before it, which is the first command, and one move to the same approach
\* pose after it, which is the last command.
Bracketed(cmds, k) ==
    /\ ArmMoves(cmds) = {1, k, Len(cmds)}
    /\ 1 < k /\ k < Len(cmds)
    /\ cmds[Len(cmds)] = cmds[1]
    /\ cmds[k].c = cmds[1].c
    /\ cmds[k].to # cmds[1].to
    /\ cmds[1].c = "movel" => cmds[1].to[3] > cmds[k].to[3]

\* A pick: approach, one gripper-open, contact, one gripper-close, retreat.
PickShape(cmds) ==
    \E k, o, c \in 1..Len(cmds) :
        /\ Bracketed(cmds, k)
        /\ GripperOpens(cmds) = {o}
        /\ GripperCloses(cmds) = {c}
        /\ 1 < o /\ o < k /\ k < c

====
